---- MODULE Spec2Model ----
(***************************************************************************)
(* Action metadata, dependency graph, topological sort and Sequence        *)
(* execution of packages/core/src/action.ts.                               *)
(*                                                                         *)
(* A binding key as written in a decorator or an @inject is a sequence of  *)
(* tokens (<<"x">>, <<"x", "#", "q">>); after normalizeKeys a key is the   *)
(* string made of the tokens before the first "#".                         *)
(***************************************************************************)
EXTENDS Integers, Sequences, FiniteSets, TLC

Range(s) == {s[i] : i \in 1..Len(s)}

Min(S) == CHOOSE m \in S : \A o \in S : m <= o

RECURSIVE JoinTokens(_)
JoinTokens(ts) == IF ts = <<>> THEN "" ELSE Head(ts) \o JoinTokens(Tail(ts))

RECURSIVE SplitHash0(_)
\* k.split('#')[0]: the tokens before the first '#'
SplitHash0(ts) ==
  IF ts = <<>> \/ Head(ts) = "#" THEN <<>> ELSE <<Head(ts)>> \o SplitHash0(Tail(ts))

RECURSIVE Dedup(_, _)
\* Array.from(new Set(keys)): first occurrences, in order
Dedup(keys, seen) ==
  IF keys = <<>> THEN <<>>
  ELSE IF Head(keys) \in seen THEN Dedup(Tail(keys), seen)
  ELSE <<Head(keys)>> \o Dedup(Tail(keys), seen \cup {Head(keys)})

\* a normalisation that keeps the '#' qualifiers
normalizeKeys_qualified(keys) ==
  Dedup([i \in 1..Len(keys) |-> JoinTokens(keys[i])], {})

normalizeKeys(keys) ==
  Dedup([i \in 1..Len(keys) |-> JoinTokens(SplitHash0(keys[i]))], {})

RECURSIVE FilterInjections(_, _)
\* the binding keys of the injections whose setter flag is `setter`
FilterInjections(injections, setter) ==
  IF injections = <<>> THEN <<>>
  ELSE (IF Head(injections).setter = setter THEN <<Head(injections).key>> ELSE <<>>)
       \o FilterInjections(Tail(injections), setter)

\* [dependsOn, fulfills] of a record with declared lists and injections
populateActionMetadata(declDependsOn, declFulfills, injections) ==
  [dependsOn |-> normalizeKeys(FilterInjections(injections, FALSE) \o declDependsOn),
   fulfills  |-> normalizeKeys(FilterInjections(injections, TRUE) \o declFulfills)]

\* the group label of a class-level record
ClassGroup(decl) ==
  IF decl.group # "" THEN decl.group ELSE "class:" \o decl.name

\* a label that does not tell a static method from an instance method
MethodGroup_unqualified(cname, mdecl) ==
  IF mdecl.group # "" THEN mdecl.group ELSE "method:" \o cname \o "." \o mdecl.method

\* the group label of a method-level record of class cname
MethodGroup(cname, mdecl) ==
  IF mdecl.group # "" THEN mdecl.group
  ELSE IF mdecl.isStatic THEN "method:" \o cname \o "." \o mdecl.method
  ELSE "method:" \o cname \o ".prototype." \o mdecl.method

\* meta.fulfills / meta.dependsOn of a decorator configuration: the declared
\* list, or the initial [] when the configuration has no such list
Declared(meta, list) == IF list \in DOMAIN meta THEN meta[list] ELSE <<>>

\* a method decorator that does not count the return-value key as an output
actionMethod_returnKeyLeftOut(cname, mdecl) ==
  LET p == populateActionMetadata(Declared(mdecl, "dependsOn"), Declared(mdecl, "fulfills"),
                                  mdecl.args)
  IN [method |-> mdecl.method,
      isStatic |-> mdecl.isStatic,
      group |-> MethodGroup(cname, mdecl),
      fulfills |-> p.fulfills,
      dependsOn |-> p.dependsOn,
      bindsReturnValueAs |-> JoinTokens(mdecl.bindsReturnValueAs),
      actionClass |-> 0]

\* @action(meta) on a method: the stored ActionMethod record
actionMethod(cname, mdecl) ==
  LET brv == JoinTokens(mdecl.bindsReturnValueAs)
      declF == IF brv # "" THEN Declared(mdecl, "fulfills") \o <<mdecl.bindsReturnValueAs>>
               ELSE Declared(mdecl, "fulfills")
      p == populateActionMetadata(Declared(mdecl, "dependsOn"), declF, mdecl.args)
  IN [method |-> mdecl.method,
      isStatic |-> mdecl.isStatic,
      group |-> MethodGroup(cname, mdecl),
      fulfills |-> p.fulfills,
      dependsOn |-> p.dependsOn,
      bindsReturnValueAs |-> brv,
      actionClass |-> 0]

\* the records the method decorators of a class store, in declaration order
MethodRecords(decl) ==
  [i \in 1..Len(decl.methods) |-> actionMethod(decl.name, decl.methods[i])]

\* @action(meta) on a class: the stored ActionClass record, with the method
\* records stored on the prototype (methods) and on the class (statics)
actionClass(decl) ==
  LET p == populateActionMetadata(Declared(decl, "dependsOn"), Declared(decl, "fulfills"),
                                  decl.args)
  IN [group |-> ClassGroup(decl),
      fulfills |-> p.fulfills,
      dependsOn |-> p.dependsOn,
      methods |-> SelectSeq(MethodRecords(decl), LAMBDA m : ~m.isStatic),
      statics |-> SelectSeq(MethodRecords(decl), LAMBDA m : m.isStatic)]

\* a class none of whose decorators has run yet
Undecorated ==
  [group |-> "", fulfills |-> <<>>, dependsOn |-> <<>>, methods |-> <<>>, statics |-> <<>>]

(***************************************************************************)
(* The constraint graph (Topo): items in _items order, each                *)
(* [seq, group, before, after, node].                                      *)
(***************************************************************************)
KeyNode(k) == [kind |-> "key", cls |-> "", method |-> "", key |-> k]
ClassNode(c) == [kind |-> "class", cls |-> c, method |-> "", key |-> ""]
MethodNode(c, m) == [kind |-> "method", cls |-> c, method |-> m, key |-> ""]

EmptyGraph == [items |-> <<>>, ok |-> TRUE]

ItemBySeq(items, s) == items[CHOOSE p \in 1..Len(items) : items[p].seq = s]

\* the seqs that must be sorted before item j: the items that name j's group
\* in their before list and the items of the groups j names in its after list
Ancestors(items, j) ==
  LET ij == ItemBySeq(items, j)
  IN {items[p].seq : p \in {q \in 1..Len(items) :
                               \/ \E b \in 1..Len(items[q].before) : items[q].before[b] = ij.group
                               \/ \E a \in 1..Len(ij.after) : ij.after[a] = items[q].group}}

RECURSIVE TopoLoop(_, _, _, _)
\* the topo-sort loop over ancestors anc (seq -> seqs to sort before it): i is
\* the loop index, sorted the seqs placed so far, defd the seqs whose
\* ancestors entry is defined
TopoLoop(anc, i, sorted, defd) ==
  LET unvisited == {j \in DOMAIN anc : j \notin Range(sorted)}
      ready == {j \in unvisited : anc[j] \subseteq Range(sorted)}
  IN IF i \notin DOMAIN anc THEN sorted
     ELSE IF i \notin defd THEN TopoLoop(anc, i + 1, Append(sorted, i), defd)
     ELSE IF ready = {} THEN TopoLoop(anc, i + 1, sorted, defd \cup unvisited)
     ELSE TopoLoop(anc, i + 1, Append(sorted, Min(ready)),
                   defd \cup {j \in unvisited : j <= Min(ready)})

\* Topo._sort: the sorted seqs (shorter than items when the sort fails)
TopoSort(items) ==
  LET anc == [j \in 0..(Len(items) - 1) |-> Ancestors(items, j)]
  IN TopoLoop(anc, 0, <<>>, {j \in DOMAIN anc : anc[j] # {}})

\* the end of Topo._sort: the items in sorted order, or the error
Sorted(pushed, sorted) ==
  IF Len(sorted) # Len(pushed) THEN [items |-> pushed, ok |-> FALSE]
  ELSE [items |-> [p \in 1..Len(sorted) |-> ItemBySeq(pushed, sorted[p])], ok |-> TRUE]

\* the item pushed by Topo.add
NewItem(graph, node, group, before, after) ==
  [seq |-> Len(graph.items), group |-> IF group = "" THEN "?" ELSE group,
   before |-> before, after |-> after, node |-> node]

\* the assertions of Topo.add on an item
ValidItem(item) ==
  /\ item.group \notin Range(item.before) /\ "?" \notin Range(item.before)
  /\ item.group \notin Range(item.after) /\ "?" \notin Range(item.after)

PushAndSort(pushed) == Sorted(pushed, TopoSort(pushed))

\* Topo.add(node, {group, before, after}); ok = FALSE once an add has thrown
TopoAdd(graph, node, group, before, after) ==
  IF ~graph.ok THEN graph
  ELSE IF ~ValidItem(NewItem(graph, node, group, before, after))
    THEN [items |-> graph.items, ok |-> FALSE]
  ELSE PushAndSort(Append(graph.items, NewItem(graph, node, group, before, after)))

exists(graph, g) == \E i \in 1..Len(graph.items) : graph.items[i].group = g

RECURSIVE AddKeys_unchecked(_, _)
\* a key node for every key of the list, whether the graph has one or not
AddKeys_unchecked(graph, keys) ==
  IF keys = <<>> \/ ~graph.ok THEN graph
  ELSE AddKeys_unchecked(TopoAdd(graph, KeyNode(Head(keys)), Head(keys), <<>>, <<>>),
                         Tail(keys))

RECURSIVE AddKeys(_, _)
\* one key node per key of the list that no item has as its group yet
AddKeys(graph, keys) ==
  IF keys = <<>> \/ ~graph.ok THEN graph
  ELSE AddKeys(IF exists(graph, Head(keys)) THEN graph
               ELSE TopoAdd(graph, KeyNode(Head(keys)), Head(keys), <<>>, <<>>),
               Tail(keys))

\* addActionToGraph with the two constraint lists exchanged
addActionToGraph_exchanged(graph, meta, node) ==
  TopoAdd(AddKeys(AddKeys(graph, meta.fulfills), meta.dependsOn),
          node, meta.group, meta.dependsOn, meta.fulfills)

\* addActionToGraph that adds the action without its after list
addActionToGraph_noAfter(graph, meta, node) ==
  TopoAdd(AddKeys(AddKeys(graph, meta.fulfills), meta.dependsOn),
          node, meta.group, meta.fulfills, <<>>)

\* addActionToGraph that throws when a dependsOn key has no node yet
addActionToGraph_strict(graph, meta, node) ==
  IF \E d \in 1..Len(meta.dependsOn) : ~exists(graph, meta.dependsOn[d])
  THEN [items |-> graph.items, ok |-> FALSE]
  ELSE TopoAdd(AddKeys(graph, meta.fulfills), node, meta.group, meta.fulfills,
               meta.dependsOn)

\* addActionToGraph(graph, meta), meta the record stored for `node`
addActionToGraph(graph, meta, node) ==
  TopoAdd(AddKeys(AddKeys(graph, meta.fulfills), meta.dependsOn),
          node, meta.group, meta.fulfills, meta.dependsOn)

(***************************************************************************)
(* The metadata registry (Reflector): reg[c] is the record stored for      *)
(* class c, reg[c].methods the records of its methods in decoration order. *)
(* The records are shared objects: inspectAction returns references to     *)
(* them.  st = [reg, nextDesc, graph] is threaded through a sort call.     *)
(***************************************************************************)
\* inspectAction(cls): a fresh descriptor (its id is st.nextDesc) whose
\* method records are the stored ones, each stamped with the descriptor
inspectAction(st, c) ==
  [st EXCEPT !.reg[c].methods =
                [i \in 1..Len(st.reg[c].methods) |->
                   [st.reg[c].methods[i] EXCEPT !.actionClass = st.nextDesc]],
             !.nextDesc = st.nextDesc + 1]

\* a sortActions that adds no class edge to the methods
PushClassGroup_none(st, c, i) == st

\* method.dependsOn.push(meta.group)
PushClassGroup(st, c, i) ==
  [st EXCEPT !.reg[c].methods[i].dependsOn = Append(@, st.reg[c].group)]

RECURSIVE SortMethodsLoop(_, _, _, _)
\* for (const m in meta.methods) of sortActions, from method index i
SortMethodsLoop(st, c, i, includeClasses) ==
  IF i > Len(st.reg[c].methods) \/ ~st.graph.ok THEN st
  ELSE LET pushed == IF includeClasses THEN PushClassGroup(st, c, i) ELSE st
           added == [pushed EXCEPT !.graph =
                       addActionToGraph(pushed.graph, pushed.reg[c].methods[i],
                                        MethodNode(c, pushed.reg[c].methods[i].method))]
       IN SortMethodsLoop(added, c, i + 1, includeClasses)

RECURSIVE SortActionsLoop(_, _, _)
\* for (const cls of actionClasses) of sortActions
SortActionsLoop(st, classes, includeClasses) ==
  IF classes = <<>> \/ ~st.graph.ok THEN st
  ELSE LET c == Head(classes)
           insp == inspectAction(st, c)
           withClass == IF includeClasses
                        THEN [insp EXCEPT !.graph =
                                addActionToGraph(insp.graph, insp.reg[c], ClassNode(c))]
                        ELSE insp
       IN SortActionsLoop(SortMethodsLoop(withClass, c, 1, includeClasses),
                          Tail(classes), includeClasses)

RECURSIVE SortClassesLoop_backwards(_, _, _)
\* a sortActionClasses that walks the class list from its end
SortClassesLoop_backwards(graph, reg, classes) ==
  IF classes = <<>> \/ ~graph.ok THEN graph
  ELSE SortClassesLoop_backwards(
         addActionToGraph(graph, reg[classes[Len(classes)]], ClassNode(classes[Len(classes)])),
         reg, SubSeq(classes, 1, Len(classes) - 1))

RECURSIVE SortClassesLoop(_, _, _)
\* for (const cls of actionClasses) of sortActionClasses
SortClassesLoop(graph, reg, classes) ==
  IF classes = <<>> \/ ~graph.ok THEN graph
  ELSE SortClassesLoop(addActionToGraph(graph, reg[Head(classes)], ClassNode(Head(classes))),
                       reg, Tail(classes))

\* a sort that returns the key nodes whatever removeKeys says
GraphNodes_unfiltered(graph, removeKeys) ==
  [i \in 1..Len(graph.items) |-> graph.items[i].node]

\* graph.nodes, or graph.nodes.filter(n => typeof n === 'object')
GraphNodes(graph, removeKeys) ==
  SelectSeq([i \in 1..Len(graph.items) |-> graph.items[i].node],
            LAMBDA n : ~removeKeys \/ n.kind # "key")

\* new ActionGraph(graph, actions); ok = FALSE stands for the thrown error
ActionGraph(graph, removeKeys) ==
  IF graph.ok
  THEN [ok |-> TRUE, items |-> graph.items, actions |-> GraphNodes(graph, removeKeys)]
  ELSE [ok |-> FALSE, items |-> <<>>, actions |-> <<>>]

\* sortActions(actionClasses, includeClasses, removeKeys): the state after
\* the call, its graph field replaced by the returned ActionGraph
SortResult(st, removeKeys) ==
  [reg |-> st.reg, nextDesc |-> st.nextDesc, result |-> ActionGraph(st.graph, removeKeys)]

sortActions(r, nd, classes, includeClasses, removeKeys) ==
  SortResult(SortActionsLoop([reg |-> r, nextDesc |-> nd, graph |-> EmptyGraph],
                             classes, includeClasses),
             removeKeys)

\* a sortActionClasses that adds the methods of the classes too
sortActionClasses_methods(reg, classes, removeKeys) ==
  sortActions(reg, 1, classes, TRUE, removeKeys).result

\* sortActionClasses(actionClasses, removeKeys)
sortActionClasses(reg, classes, removeKeys) ==
  ActionGraph(SortClassesLoop(EmptyGraph, reg, classes), removeKeys)

(***************************************************************************)
(* The program: two decorated action classes, A and B.                     *)
(***************************************************************************)
MaxCalls == 2

rd(k) == [key |-> k, setter |-> FALSE]
sr(k) == [key |-> k, setter |-> TRUE]

\* a method declaration: @action({dependsOn, fulfills, bindsReturnValueAs})
\* on method `name` with injected arguments args; behaviour is what a call of
\* the method does: "value" (resolves to a value), "undefined" or "throw"
MethodDecl(name, args, dependsOn, fulfills, brv, behaviour) ==
  [method |-> name, isStatic |-> FALSE, group |-> "", args |-> args,
   dependsOn |-> dependsOn, fulfills |-> fulfills, bindsReturnValueAs |-> brv,
   behaviour |-> behaviour]

\* a class declaration: @action({dependsOn, fulfills}) on class `name` with
\* injected constructor arguments and properties args
ClassDecl(name, args, dependsOn, fulfills, methods) ==
  [name |-> name, group |-> "", args |-> args, dependsOn |-> dependsOn,
   fulfills |-> fulfills, methods |-> methods]

ClassNames == {"A", "B"}

ClassLists == {<<"A", "B">>, <<"B", "A">>, <<"A">>}

\* the programs whose sorting is explored: cl chooses the class-level
\* declarations (none; A reads z and B fulfills z; that and, the other way
\* round, A fulfills w and B dependsOn w; A reads z and B fulfills w)
SortPrograms ==
  {[A |-> ClassDecl("A", IF cl # "none" THEN <<rd(<<"z">>)>> ELSE <<>>, <<>>,
             IF cl = "cycle" THEN << <<"w">> >> ELSE <<>>,
             <<MethodDecl("m", aa, <<>>, <<>>, <<"x">>, "value")>> \o an),
    B |-> ClassDecl("B", <<>>, IF cl = "cycle" THEN << <<"w">> >> ELSE <<>>,
             IF cl = "apart" THEN << <<"w">> >>
             ELSE IF cl # "none" THEN << <<"z">> >> ELSE <<>>,
             <<MethodDecl("m", ba, <<>>, <<>>, <<"y">>, "value")>>)] :
     cl \in {"none", "edge", "cycle", "apart"},
     aa \in {<<>>, <<rd(<<"y">>)>>, <<rd(<<"x">>)>>},
     an \in {<<>>, <<MethodDecl("n", <<rd(<<"x">>)>>, << <<"y">> >>, <<>>, <<>>, "value")>>},
     ba \in {<<>>, <<rd(<<"x", "#", "q">>), rd(<<"w">>)>>, <<sr(<<"y">>)>>}}

\* the programs whose execution is explored: B's constructor may read z,
\* A.m publishes x by its return value (or returns undefined, or throws),
\* A.n, when there, publishes x too, B.m reads x and publishes y by its
\* return value, or sets y and declares no bindsReturnValueAs, or throws
RunPrograms ==
  {[A |-> ClassDecl("A", <<>>, <<>>, <<>>,
             <<MethodDecl("m", am[1], <<>>, <<>>, <<"x">>, am[2])>> \o an),
    B |-> ClassDecl("B", cb, <<>>, <<>>,
             <<MethodDecl("m", bm[1], bm[2], <<>>, bm[4], bm[3])>>)] :
     cb \in {<<>>, <<rd(<<"z">>)>>},
     am \in {<< <<>>, "value" >>, << <<>>, "undefined" >>, << <<>>, "throw" >>,
             << <<rd(<<"y">>)>>, "value" >>},
     an \in {<<>>, <<MethodDecl("n", <<>>, <<>>, <<>>, <<"x">>, "value")>>},
     bm \in {<< <<rd(<<"x", "#", "q">>)>>, <<>>, "value", <<"y">> >>,
             << <<sr(<<"y">>)>>, << <<"w">> >>, "value", <<>> >>,
             << <<>>, << <<"x">> >>, "throw", <<"y">> >>}}

\* the parent contexts a Sequence of the program is constructed with: z is
\* bound by the caller or not when a constructor reads it
ParentsOf(prog) == IF prog["B"].args = <<>> THEN {{}} ELSE {{}, {"z"}}

\* the class lists a Sequence is constructed with
SeqLists == {<<"B", "A">>, <<"A">>}

\* the injections and the lists of a decorator configuration, as the programs
\* whose decoration is explored write them: nothing at all; reads and a
\* setter with qualifiers and repeated keys, both lists declared; a setter
\* for the key the return value is bound as, no fulfills list; a read, and a
\* bindsReturnValueAs key that no setter and no fulfills list names
MetaInputs ==
  {[args |-> <<>>, bindsReturnValueAs |-> <<>>],
   [args |-> <<rd(<<"x", "#", "q">>), sr(<<"y">>), rd(<<"x">>)>>,
    dependsOn |-> << <<"x">>, <<"z", "#", "t">>, <<"z">> >>,
    fulfills |-> << <<"y", "#", "a">>, <<"w">> >>,
    bindsReturnValueAs |-> <<>>],
   [args |-> <<sr(<<"w">>)>>, dependsOn |-> <<>>, bindsReturnValueAs |-> <<"w">>],
   [args |-> <<rd(<<"y", "#", "q">>)>>, dependsOn |-> << <<"y">> >>,
    bindsReturnValueAs |-> <<"x">>]}

\* the fulfills and dependsOn lists a configuration declares
ListsOf(inputs) == [f \in DOMAIN inputs \cap {"dependsOn", "fulfills"} |-> inputs[f]]

\* @action({group, ...inputs}) on method `name`; group "" stands for none
MetaMethod(name, isStatic, group, inputs) ==
  [method |-> name, isStatic |-> isStatic, group |-> group, args |-> inputs.args,
   bindsReturnValueAs |-> inputs.bindsReturnValueAs, behaviour |-> "value"]
  @@ ListsOf(inputs)

\* @action({group, ...inputs}) on class `name`
MetaClass(name, group, inputs, methods) ==
  [name |-> name, group |-> group, args |-> inputs.args, methods |-> methods]
  @@ ListsOf(inputs)

\* the programs whose decoration is explored: class A, with or without an
\* explicit group, has an instance method named A and may have a static
\* method named A too; class B has an explicit group
MetaPrograms ==
  {[A |-> MetaClass("A", ga, ci, <<MetaMethod("A", FALSE, gm, mi)>> \o sm),
    B |-> MetaClass("B", "timer-group", [args |-> <<>>],
             <<MethodDecl("m", <<rd(<<"x">>)>>, <<>>, <<>>, <<"y">>, "value")>>)] :
     ga \in {"", "timer-group"},
     ci \in {i \in MetaInputs : i.bindsReturnValueAs = <<>>},
     gm \in {"", "step-group"},
     mi \in MetaInputs,
     sm \in {<<>>} \cup {<<MetaMethod("A", TRUE, gs, [args |-> <<rd(<<"z">>)>>,
                                                    bindsReturnValueAs |-> <<>>])>> :
                          gs \in {"", "static-group"}}}

\* the registry right after the decorators of the program have run
Decorated(prog) == [c \in ClassNames |-> actionClass(prog[c])]

\* the record stored for an action node
MetaOf(r, node) ==
  IF node.kind = "class" THEN r[node.cls]
  ELSE LET ms == r[node.cls].methods
       IN ms[CHOOSE i \in 1..Len(ms) : ms[i].method = node.method]

(***************************************************************************)
(* The binding store (Context) of a Sequence: store[k] is the binding of   *)
(* key k in the Sequence's own registry, parent the keys bound in the      *)
(* parent context.  A value is [run, by]: the run and the group of the     *)
(* method that published it (run 0: bound by the caller).                  *)
(***************************************************************************)
(* generateDot: the DOT text as the list of its statements.                *)
(***************************************************************************)
MethodNames == {"m", "n", "A"}

\* what can follow the 'class:' or 'method:' prefix of a computed group label
LabelTails ==
  ClassNames
  \cup {c \o ".prototype." \o m : c \in ClassNames, m \in MethodNames}
  \cup {c \o "." \o m : c \in ClassNames, m \in MethodNames}

\* group.substring(prefix.length) when group starts with prefix
StripPrefix(prefix, group) ==
  IF \E t \in LabelTails : group = prefix \o t
  THEN CHOOSE t \in LabelTails : group = prefix \o t
  ELSE group

\* normalize of generateDot: the quoted name of a group
normalize(group) ==
  "\"" \o StripPrefix("method:", StripPrefix("class:", group)) \o "\""

\* item.before.map(normalize), item.after.map(normalize)
NormalizeAll(groups) == [i \in 1..Len(groups) |-> normalize(groups[i])]

stateAttrs == "[shape=\"ellipse\"]"
classAttrs == "[shape=\"box\"]"
methodAttrs == "[shape=\"box\", style=\"rounded\"]"

\* the statements pushed for one item of graph._items
DotItem(item) ==
  <<[stmt |-> "node", name |-> normalize(item.group), targets |-> <<>>,
     attrs |-> IF item.node.kind = "key" THEN stateAttrs
               ELSE IF item.node.kind = "method" THEN methodAttrs ELSE classAttrs]>>
  \o (IF item.before # <<>>
      THEN <<[stmt |-> "before", name |-> normalize(item.group),
              targets |-> NormalizeAll(item.before), attrs |-> ""]>>
      ELSE <<>>)
  \o (IF item.after # <<>>
      THEN <<[stmt |-> "after", name |-> normalize(item.group),
              targets |-> NormalizeAll(item.after), attrs |-> ""]>>
      ELSE <<>>)

RECURSIVE DotItems(_)
\* for (const item of graph._items)
DotItems(items) ==
  IF items = <<>> THEN <<>> ELSE DotItem(Head(items)) \o DotItems(Tail(items))

\* the items in the order they were added to the graph
BySeq(items) == [s \in 1..Len(items) |-> ItemBySeq(items, s - 1)]

\* a diagram that lists the items in the order they were added
generateDot_bySeq(items) == DotItems(BySeq(items))

\* generateDot(graph): the statements between the opening and the closing
\* line of the digraph
generateDot(items) == DotItems(items)

\* no toDot call has returned for the current graph
NoDot == [made |-> FALSE, stmts |-> <<>>]

\* the text a toDot call returned
DotText(items) == [made |-> TRUE, stmts |-> generateDot(items)]

(***************************************************************************)
MaxRuns == 2

DataKeys == {"x", "y", "z", "w"}

ClassKey(c) == "actions." \o c

StoreKeys == {ClassKey(c) : c \in ClassNames} \cup DataKeys

NoValue == [run |-> 0, by |-> ""]
SeedValue == [run |-> 0, by |-> "seed"]

NoBinding == [kind |-> "none", cls |-> "", inst |-> FALSE, val |-> NoValue]
ClassBinding(c) == [kind |-> "class", cls |-> c, inst |-> FALSE, val |-> NoValue]
ValueBinding(v) == [kind |-> "value", cls |-> "", inst |-> FALSE, val |-> v]

\* registry.clear()
EmptyStore == [k \in StoreKeys |-> NoBinding]

\* ctx.bind(key).to(value) and .toClass(c): a new binding replaces the old one
bind(st, key, binding) == [st EXCEPT ![key] = binding]

IsBound(st, par, key) == st[key].kind # "none" \/ key \in par

\* the value ctx.get(key) resolves to, for a bound key
ValueOf(st, par, key) == IF st[key].kind # "none" THEN st[key].val ELSE SeedValue

\* the key a plain @inject(key) looks up: the part before '#'
LookupKey(k) == JoinTokens(SplitHash0(k))

RECURSIVE FirstUnbound(_, _, _)
\* the first key of the list that is not bound, "" when all are
FirstUnbound(st, par, keys) ==
  IF keys = <<>> THEN ""
  ELSE IF ~IsBound(st, par, LookupKey(Head(keys))) THEN LookupKey(Head(keys))
  ELSE FirstUnbound(st, par, Tail(keys))

\* ctx.get('actions.' + c): the singleton instance of class c, created on the
\* first get from the constructor's injected keys; [ok, err, store]
getInstance(st, par, decl) ==
  LET key == ClassKey(decl.name)
      missing == FirstUnbound(st, par, FilterInjections(decl.args, FALSE))
  IN IF st[key].kind # "class" THEN [ok |-> FALSE, err |-> "notfound:" \o key, store |-> st]
     ELSE IF st[key].inst THEN [ok |-> TRUE, err |-> "", store |-> st]
     ELSE IF missing # "" THEN [ok |-> FALSE, err |-> "notfound:" \o missing, store |-> st]
     ELSE [ok |-> TRUE, err |-> "", store |-> [st EXCEPT ![key].inst = TRUE]]

RECURSIVE CallSetters(_, _, _)
\* the method body calls each injected setter with value v
CallSetters(st, keys, v) ==
  IF keys = <<>> THEN st
  ELSE CallSetters(bind(st, JoinTokens(Head(keys)), ValueBinding(v)), Tail(keys), v)

\* invokeMethod(v, m.method, ctx) up to the call of the method: the injected
\* arguments are resolved, then the body runs; [ok, err, store, vals]
invokeMethod(st, par, mdecl, v) ==
  LET reads == FilterInjections(mdecl.args, FALSE)
      missing == FirstUnbound(st, par, reads)
  IN IF missing # "" THEN [ok |-> FALSE, err |-> "notfound:" \o missing, store |-> st,
                           vals |-> <<>>]
     ELSE [ok |-> TRUE, err |-> "",
           store |-> CallSetters(st, FilterInjections(mdecl.args, TRUE), v),
           vals |-> [i \in 1..Len(reads) |-> ValueOf(st, par, LookupKey(reads[i]))]]

(***************************************************************************)
(* Sequence.                                                               *)
(***************************************************************************)
NoGraph == [built |-> FALSE, items |-> <<>>, actions |-> <<>>]

RECURSIVE bindClasses(_, _)
\* Sequence.bindClasses
bindClasses(st, classes) ==
  IF classes = <<>> THEN st
  ELSE bindClasses(bind(st, ClassKey(Head(classes)), ClassBinding(Head(classes))),
                   Tail(classes))

\* a reset that clears the registry and binds nothing
reset_cleared(classes) == EmptyStore

\* Sequence.reset: the store after it
reset(classes) == bindClasses(EmptyStore, classes)

\* a build that caches an empty graph when sortActions throws
Built_besteffort(s, graph, nbuilds) ==
  [ok |-> TRUE,
   graph |-> [built |-> TRUE, items |-> s.result.items, actions |-> s.result.actions],
   reg |-> s.reg, nextDesc |-> s.nextDesc,
   builds |-> nbuilds + 1]

\* this.actionGraph = <the result s of sortActions>, unless it threw
Built(s, graph, nbuilds) ==
  [ok |-> s.result.ok,
   graph |-> IF s.result.ok
             THEN [built |-> TRUE, items |-> s.result.items, actions |-> s.result.actions]
             ELSE graph,
   reg |-> s.reg, nextDesc |-> s.nextDesc,
   builds |-> IF s.result.ok THEN nbuilds + 1 ELSE nbuilds]

\* a buildGraph that sorts again on every call
buildGraph_uncached(graph, r, nd, classes, nbuilds) ==
  Built(sortActions(r, nd, classes, TRUE, FALSE), graph, nbuilds)

\* Sequence.buildGraph: [ok, graph, reg, nextDesc, builds] after the call
buildGraph(graph, r, nd, classes, nbuilds) ==
  IF graph.built
  THEN [ok |-> TRUE, graph |-> graph, reg |-> r, nextDesc |-> nd, builds |-> nbuilds]
  ELSE Built(sortActions(r, nd, classes, TRUE, FALSE), graph, nbuilds)

RECURSIVE Reversed(_)
Reversed(s) == IF s = <<>> THEN <<>> ELSE Append(Reversed(Tail(s)), Head(s))

\* the method actions taken from the end of the order to its start
MethodActions_reversed(actions) == Reversed(SelectSeq(actions, LAMBDA n : n.method # ""))

\* actions.filter(a => !!a.method)
MethodActions(actions) == SelectSeq(actions, LAMBDA n : n.method # "")

\* the declaration of the method of an action node
DeclOf(prog, node) ==
  LET ms == prog[node.cls].methods
  IN ms[CHOOSE i \in 1..Len(ms) : ms[i].method = node.method]

\* the value a call of the method of `node` in run r produces
Produced(r, run, node) == [run |-> run, by |-> MetaOf(r, node).group]

\* a publication that binds an empty value instead of the result
Publication_empty(r, prog, run, node) ==
  IF DeclOf(prog, node).behaviour = "value" /\ MetaOf(r, node).bindsReturnValueAs # ""
  THEN <<[key |-> MetaOf(r, node).bindsReturnValueAs, val |-> NoValue]>>
  ELSE <<>>

\* a publication made whenever the method returns, under the key "y" when
\* the action declares none
Publication_always(r, prog, run, node) ==
  <<[key |-> IF MetaOf(r, node).bindsReturnValueAs # ""
             THEN MetaOf(r, node).bindsReturnValueAs ELSE "y",
     val |-> Produced(r, run, node)]>>

\* if (result !== undefined && m.bindsReturnValueAs) ctx.bind(...).to(result):
\* the bindings made for the completed action, as a list of [key, val]
Publication(r, prog, run, node) ==
  IF DeclOf(prog, node).behaviour = "value" /\ MetaOf(r, node).bindsReturnValueAs # ""
  THEN <<[key |-> MetaOf(r, node).bindsReturnValueAs, val |-> Produced(r, run, node)]>>
  ELSE <<>>

RECURSIVE Publish(_, _)
Publish(st, pubs) ==
  IF pubs = <<>> THEN st
  ELSE Publish(bind(st, Head(pubs).key, ValueBinding(Head(pubs).val)), Tail(pubs))

IdleRun == [pc |-> "idle", plan |-> <<>>, idx |-> 0, invoked |-> <<>>, completed |-> 0,
            pubs |-> <<>>, observed |-> <<>>, err |-> ""]

\* the loop going on to the next action although its instance could not be
\* created
Advance_suppressed(run, st, par, prog, i) ==
  IF i > Len(run.plan) THEN [run |-> [run EXCEPT !.pc = "done", !.idx = 0], store |-> st]
  ELSE [run |-> [run EXCEPT !.pc = "awaitGet", !.idx = i], store |-> st]

\* a loop that, after its last action, waits for something else instead of
\* returning
Advance_waiting(run, st, par, prog, i) ==
  IF i > Len(run.plan) THEN [run |-> [run EXCEPT !.pc = "awaitOther", !.idx = 0], store |-> st]
  ELSE LET g == getInstance(st, par, prog[run.plan[i].cls])
       IN IF g.ok THEN [run |-> [run EXCEPT !.pc = "awaitGet", !.idx = i], store |-> g.store]
          ELSE [run |-> [run EXCEPT !.pc = "failed", !.idx = i, !.err = g.err], store |-> st]

\* the run after its i-th action completed: ctx.get of the next action's
\* instance, or the end of the loop; [run, store]
Advance(run, st, par, prog, i) ==
  IF i > Len(run.plan) THEN [run |-> [run EXCEPT !.pc = "done", !.idx = 0], store |-> st]
  ELSE LET g == getInstance(st, par, prog[run.plan[i].cls])
       IN IF g.ok THEN [run |-> [run EXCEPT !.pc = "awaitGet", !.idx = i], store |-> g.store]
          ELSE [run |-> [run EXCEPT !.pc = "failed", !.idx = i, !.err = g.err], store |-> st]

VARIABLES
  program,      \* the declarations of the classes (never changes)
  reg,          \* the metadata registry
  nextDesc,     \* the number of the next descriptor inspectAction creates
  descriptors,  \* the class of every descriptor inspectAction has returned
  calls,        \* API calls made so far
  lastCall,     \* the last inspect/sort call and what it returned
  seqClasses,   \* Sequence.actionClasses
  parent,       \* the keys bound in the parent context of the Sequence
  store,        \* the Sequence's own registry
  actionGraph,  \* Sequence.actionGraph
  builds,       \* how many times the Sequence computed its graph
  runs,         \* the run() calls of the Sequence
  lastOp,       \* "reset" right after a reset() call, "other" otherwise
  wasReset,     \* reset() was called at least once
  dot           \* the DOT text toDot returned for the last graph, if any

sortVars == <<program, reg, nextDesc, descriptors, calls, lastCall>>

seqVars == <<seqClasses, parent, store, actionGraph, builds, runs>>

vars == <<program, reg, nextDesc, descriptors, calls, lastCall, seqClasses,
          parent, store, actionGraph, builds, runs, lastOp, wasReset, dot>>

NoCall == [op |-> "none", classes |-> <<>>, includeClasses |-> FALSE,
           removeKeys |-> FALSE, ok |-> TRUE, items |-> <<>>, actions |-> <<>>]

\* new Sequence(classes, ctx)
InitSequence(classes, par) ==
  /\ seqClasses = classes
  /\ parent = par
  /\ store = bindClasses(EmptyStore, classes)
  /\ actionGraph = NoGraph
  /\ builds = 0
  /\ runs = [r \in 1..MaxRuns |-> IdleRun]

InitSort ==
  /\ program \in SortPrograms
  /\ reg = Decorated(program)
  /\ nextDesc = 1
  /\ descriptors = <<>>
  /\ calls = 0
  /\ lastCall = NoCall
  /\ InitSequence(<<"A", "B">>, {})
  /\ lastOp = "other"
  /\ wasReset = FALSE
  /\ dot = NoDot

Init ==
  /\ program \in RunPrograms
  /\ reg = Decorated(program)
  /\ nextDesc = 1
  /\ descriptors = <<>>
  /\ calls = 0
  /\ lastCall = NoCall
  /\ \E cl \in SeqLists, par \in ParentsOf(program) : InitSequence(cl, par)
  /\ lastOp = "other"
  /\ wasReset = FALSE
  /\ dot = NoDot

\* the record of a sort call that returned ActionGraph g (or threw)
Returned(op, classes, includeClasses, removeKeys, g) ==
  [op |-> op, classes |-> classes, includeClasses |-> includeClasses,
   removeKeys |-> removeKeys, ok |-> g.ok, items |-> g.items, actions |-> g.actions]

\* the descriptors made by a loop over classes that moved the descriptor
\* counter to nd: one for every class the loop inspected
Inspected(classes, nd) == descriptors \o SubSeq(classes, 1, nd - nextDesc)

\* the state after a sortActions call that ended as r
SortActionsReturns(classes, includeClasses, removeKeys, r) ==
  /\ reg' = r.reg
  /\ nextDesc' = r.nextDesc
  /\ descriptors' = Inspected(classes, r.nextDesc)
  /\ lastCall' = Returned("sortActions", classes, includeClasses, removeKeys, r.result)

\* the state after buildGraph ended as b
GraphBuilt(b) ==
  /\ actionGraph' = b.graph
  /\ reg' = b.reg
  /\ nextDesc' = b.nextDesc
  /\ descriptors' = Inspected(seqClasses, b.nextDesc)
  /\ builds' = b.builds

\* the rest of a run() call whose buildGraph ended as b: the method actions
\* are selected and the instance of the first one is looked up
RunStarts(r, b, adv) ==
  /\ GraphBuilt(b)
  /\ IF b.ok
     THEN /\ runs' = [runs EXCEPT ![r] = adv.run]
          /\ store' = adv.store
     ELSE /\ runs' = [runs EXCEPT ![r] = [IdleRun EXCEPT !.pc = "failed",
                                                         !.err = "dependencies"]]
          /\ store' = store

FirstAdvance(b) ==
  Advance([IdleRun EXCEPT !.plan = MethodActions(b.graph.actions)], store, parent, program, 1)

RunCallWith(r, b) == RunStarts(r, b, FirstAdvance(b))

\* a caller inspects class c
InspectAction(c) ==
  /\ calls < MaxCalls
  /\ LET st == inspectAction([reg |-> reg, nextDesc |-> nextDesc, graph |-> EmptyGraph], c)
     IN /\ reg' = st.reg
        /\ nextDesc' = st.nextDesc
  /\ descriptors' = Append(descriptors, c)
  /\ calls' = calls + 1
  /\ lastCall' = [NoCall EXCEPT !.op = "inspectAction", !.classes = <<c>>]
  /\ lastOp' = "other"
  /\ dot' = NoDot
  /\ UNCHANGED wasReset
  /\ UNCHANGED program
  /\ UNCHANGED seqVars

\* a caller calls sortActionClasses(classes, removeKeys)
SortActionClasses(classes, removeKeys) ==
  /\ calls < MaxCalls
  /\ lastCall' = Returned("sortActionClasses", classes, FALSE, removeKeys,
                          sortActionClasses(reg, classes, removeKeys))
  /\ calls' = calls + 1
  /\ lastOp' = "other"
  /\ dot' = NoDot
  /\ UNCHANGED wasReset
  /\ UNCHANGED <<program, reg, nextDesc, descriptors>>
  /\ UNCHANGED seqVars

\* a caller calls sortActions(classes, includeClasses, removeKeys)
SortActions(classes, includeClasses, removeKeys) ==
  /\ calls < MaxCalls
  /\ SortActionsReturns(classes, includeClasses, removeKeys,
                        sortActions(reg, nextDesc, classes, includeClasses, removeKeys))
  /\ calls' = calls + 1
  /\ lastOp' = "other"
  /\ dot' = NoDot
  /\ UNCHANGED wasReset
  /\ UNCHANGED program
  /\ UNCHANGED seqVars

\* run() is called: the graph is built if there is none, the method actions
\* are selected and the instance of the first one is looked up
RunCall(r) ==
  /\ runs[r].pc = "idle"
  /\ \A q \in 1..(r - 1) : runs[q].pc # "idle"
  /\ RunCallWith(r, buildGraph(actionGraph, reg, nextDesc, seqClasses, builds))
  /\ lastOp' = "other"
  /\ UNCHANGED <<wasReset, dot>>
  /\ UNCHANGED <<program, calls, lastCall, seqClasses, parent>>

\* the instance is there: the arguments of the current action are resolved
\* and its method is called
RunInvoke(r) ==
  /\ runs[r].pc = "awaitGet"
  /\ LET node == runs[r].plan[runs[r].idx]
         inv == invokeMethod(store, parent, DeclOf(program, node), Produced(reg, r, node))
     IN IF inv.ok
        THEN /\ runs' = [runs EXCEPT ![r].pc = "awaitInvoke",
                                     ![r].invoked = Append(@, node),
                                     ![r].observed = Append(@, inv.vals)]
             /\ store' = inv.store
        ELSE /\ runs' = [runs EXCEPT ![r].pc = "failed", ![r].err = inv.err]
             /\ store' = store
  /\ lastOp' = "other"
  /\ UNCHANGED <<wasReset, dot>>
  /\ UNCHANGED <<sortVars, seqClasses, parent, actionGraph, builds>>

\* the method of the current action completes: its result is published and
\* the loop goes on to the next action
RunComplete(r) ==
  /\ runs[r].pc = "awaitInvoke"
  /\ LET node == runs[r].plan[runs[r].idx]
         pubs == Publication(reg, program, r, node)
         completed == [runs[r] EXCEPT !.completed = @ + 1, !.pubs = @ \o pubs]
         adv == Advance(completed, Publish(store, pubs), parent, program, runs[r].idx + 1)
     IN IF DeclOf(program, node).behaviour = "throw"
        THEN /\ runs' = [runs EXCEPT ![r].pc = "failed",
                                     ![r].err = "thrown:" \o MetaOf(reg, node).group]
             /\ store' = store
        ELSE /\ runs' = [runs EXCEPT ![r] = adv.run]
             /\ store' = adv.store
  /\ lastOp' = "other"
  /\ UNCHANGED <<wasReset, dot>>
  /\ UNCHANGED <<sortVars, seqClasses, parent, actionGraph, builds>>

\* reset() is called
Reset ==
  /\ store' = reset(seqClasses)
  /\ lastOp' = "reset"
  /\ wasReset' = TRUE
  /\ UNCHANGED <<sortVars, seqClasses, parent, actionGraph, builds, runs, dot>>

\* toDOT() is called
ToDOTWith(b) ==
  /\ GraphBuilt(b)
  /\ dot' = IF b.ok THEN DotText(b.graph.items) ELSE NoDot

ToDOT ==
  /\ calls < MaxCalls
  /\ ToDOTWith(buildGraph(actionGraph, reg, nextDesc, seqClasses, builds))
  /\ calls' = calls + 1
  /\ lastOp' = "other"
  /\ UNCHANGED wasReset
  /\ UNCHANGED <<program, lastCall, seqClasses, parent, store, runs>>

\* toDot() is called on the ActionGraph the last sort call returned
ToDot ==
  /\ lastCall.op \in {"sortActionClasses", "sortActions"}
  /\ lastCall.ok
  /\ ~dot.made
  /\ dot' = DotText(lastCall.items)
  /\ lastOp' = "other"
  /\ UNCHANGED wasReset
  /\ UNCHANGED sortVars
  /\ UNCHANGED seqVars

\* the class-level decorator of class c has run
IsDecorated(c) == reg[c].group # ""

\* how many method decorators of class c have run
MethodsDecorated(c) == Len(reg[c].methods) + Len(reg[c].statics)

\* no decorator of class c has run, or all of them have: the decorators of
\* one class definition run together, method decorators first
Settled(c) == IsDecorated(c) \/ MethodsDecorated(c) = 0

\* only the registry changes while decorators run
DecoratorRuns ==
  /\ lastOp' = "other"
  /\ UNCHANGED <<wasReset, dot>>
  /\ UNCHANGED <<program, nextDesc, descriptors, calls, lastCall>>
  /\ UNCHANGED seqVars

\* the @action decorator of the next method of class c runs
DecorateMethod(c) ==
  /\ ~IsDecorated(c)
  /\ \A o \in ClassNames \ {c} : Settled(o)
  /\ MethodsDecorated(c) < Len(program[c].methods)
  /\ LET rec == actionMethod(c, program[c].methods[MethodsDecorated(c) + 1])
     IN reg' = IF rec.isStatic
               THEN [reg EXCEPT ![c].statics = Append(@, rec)]
               ELSE [reg EXCEPT ![c].methods = Append(@, rec)]
  /\ DecoratorRuns

\* the @action decorator of class c runs, after those of its methods
DecorateClass(c) ==
  /\ ~IsDecorated(c)
  /\ \A o \in ClassNames \ {c} : Settled(o)
  /\ MethodsDecorated(c) = Len(program[c].methods)
  /\ reg' = [reg EXCEPT ![c] = [actionClass(program[c]) EXCEPT !.methods = reg[c].methods,
                                                               !.statics = reg[c].statics]]
  /\ DecoratorRuns

NextSort ==
  \/ \E c \in ClassNames : InspectAction(c)
  \/ \E cl \in ClassLists, rk \in BOOLEAN : SortActionClasses(cl, rk)
  \/ \E cl \in ClassLists, inc \in BOOLEAN, rk \in BOOLEAN : SortActions(cl, inc, rk)

SpecSort == InitSort /\ [][NextSort]_vars

\* sort calls, each followed or not by toDot() on the returned ActionGraph
NextDot ==
  \/ \E cl \in ClassLists, rk \in BOOLEAN : SortActionClasses(cl, rk)
  \/ \E cl \in ClassLists, inc \in BOOLEAN, rk \in BOOLEAN : SortActions(cl, inc, rk)
  \/ ToDot

SpecDot == InitSort /\ [][NextDot]_vars

Next ==
  \/ \E r \in 1..MaxRuns : RunCall(r)
  \/ \E r \in 1..MaxRuns : RunInvoke(r)
  \/ \E r \in 1..MaxRuns : RunComplete(r)
  \/ Reset
  \/ ToDOT

Spec == Init /\ [][Next]_vars

\* the run() and reset() calls alone
NextLive ==
  \/ \E r \in 1..MaxRuns : RunCall(r)
  \/ \E r \in 1..MaxRuns : RunInvoke(r)
  \/ \E r \in 1..MaxRuns : RunComplete(r)
  \/ Reset

\* every awaited promise of a run() call settles: the lookup of an instance
\* and the resolution of the arguments always do, and the invoked method is
\* assumed to return or throw
SpecLive ==
  /\ Init
  /\ [][NextLive]_vars
  /\ \A r \in 1..MaxRuns : WF_vars(RunInvoke(r)) /\ WF_vars(RunComplete(r))

\* the classes are defined, then inspected
InitMeta ==
  /\ program \in MetaPrograms
  /\ reg = [c \in ClassNames |-> Undecorated]
  /\ nextDesc = 1
  /\ descriptors = <<>>
  /\ calls = 0
  /\ lastCall = NoCall
  /\ InitSequence(<<"A", "B">>, {})
  /\ lastOp = "other"
  /\ wasReset = FALSE
  /\ dot = NoDot

NextMeta ==
  \/ \E c \in ClassNames : DecorateMethod(c)
  \/ \E c \in ClassNames : DecorateClass(c)
  \/ \E c \in ClassNames : IsDecorated(c) /\ InspectAction(c)

SpecMeta == InitMeta /\ [][NextMeta]_vars

(***************************************************************************)
(* Properties of the sort calls.                                           *)
(***************************************************************************)
IsSort(call) == call.op \in {"sortActionClasses", "sortActions"}

\* the graph item that holds a node of the returned order
ItemOf(call, node) ==
  call.items[CHOOSE p \in 1..Len(call.items) : call.items[p].node = node]

GroupsOf(call) == [p \in 1..Len(call.actions) |-> ItemOf(call, call.actions[p]).group]

\* C1: in every order returned by a sort call, a node is placed before every
\* node of a group its before list names and after every node of a group its
\* after list names; every action node is placed after the node of each of
\* its dependsOn keys and before the node of each of its fulfills keys, and
\* an unfiltered order holds a node for each of these keys.
C1_ConstraintSatisfaction ==
  (IsSort(lastCall) /\ lastCall.ok) =>
    LET ord == lastCall.actions
        grp == GroupsOf(lastCall)
    IN \A p \in 1..Len(ord) :
         /\ \A q \in 1..Len(ord) :
              /\ grp[q] \in Range(ItemOf(lastCall, ord[p]).before) => p < q
              /\ grp[q] \in Range(ItemOf(lastCall, ord[p]).after) => q < p
         /\ ord[p].kind # "key" =>
              LET meta == MetaOf(reg, ord[p])
              IN /\ \A q \in 1..Len(ord) :
                      /\ grp[q] \in Range(meta.dependsOn) => q < p
                      /\ grp[q] \in Range(meta.fulfills) => p < q
                 /\ ~lastCall.removeKeys =>
                      Range(meta.dependsOn) \cup Range(meta.fulfills) \subseteq Range(grp)

\* a sort returned an order in which an action with a dependsOn key and a
\* fulfills key sits between the two key nodes
C1_Witness ==
  /\ IsSort(lastCall) /\ lastCall.ok /\ ~lastCall.removeKeys
  /\ \E p \in 2..(Len(lastCall.actions) - 1) :
       /\ lastCall.actions[p].kind = "method"
       /\ \E q \in 1..(p - 1) : lastCall.actions[q].kind = "key"
                                 /\ lastCall.actions[q].key \in Range(MetaOf(reg, lastCall.actions[p]).dependsOn)
       /\ \E q \in (p + 1)..Len(lastCall.actions) :
            lastCall.actions[q].kind = "key"
            /\ lastCall.actions[q].key \in Range(MetaOf(reg, lastCall.actions[p]).fulfills)

RECURSIVE DeclAddKeys(_, _)
\* the declared nodes with a node for each key of the list that has none
DeclAddKeys(nodes, keys) ==
  IF keys = <<>> THEN nodes
  ELSE DeclAddKeys(IF \E i \in 1..Len(nodes) : nodes[i].group = Head(keys) THEN nodes
                   ELSE Append(nodes, [group |-> Head(keys), before |-> <<>>, after |-> <<>>]),
                   Tail(keys))

DeclAdd(nodes, group, fulfills, dependsOn) ==
  Append(DeclAddKeys(DeclAddKeys(nodes, fulfills), dependsOn),
         [group |-> group, before |-> fulfills, after |-> dependsOn])

RECURSIVE DeclMethods(_, _, _, _)
DeclMethods(nodes, cmeta, i, includeClasses) ==
  IF i > Len(cmeta.methods) THEN nodes
  ELSE DeclMethods(DeclAdd(nodes, cmeta.methods[i].group, cmeta.methods[i].fulfills,
                           cmeta.methods[i].dependsOn
                             \o (IF includeClasses THEN <<cmeta.group>> ELSE <<>>)),
                   cmeta, i + 1, includeClasses)

RECURSIVE DeclaredNodes(_, _, _, _, _)
\* the nodes and constraints that the declarations of the classes of a sort
\* call ask for: [group, before, after] per node
DeclaredNodes(nodes, decorated, op, classes, includeClasses) ==
  IF classes = <<>> THEN nodes
  ELSE LET cmeta == decorated[Head(classes)]
           withClass == IF op = "sortActionClasses" \/ includeClasses
                        THEN DeclAdd(nodes, cmeta.group, cmeta.fulfills, cmeta.dependsOn)
                        ELSE nodes
           withMethods == IF op = "sortActions"
                          THEN DeclMethods(withClass, cmeta, 1, includeClasses)
                          ELSE withClass
       IN DeclaredNodes(withMethods, decorated, op, Tail(classes), includeClasses)

\* node i must come before node j
Precedes(nodes, i, j) ==
  nodes[j].group \in Range(nodes[i].before) \/ nodes[i].group \in Range(nodes[j].after)

RECURSIVE ReachFrom(_, _, _)
ReachFrom(nodes, S, k) ==
  IF k = 0 THEN S
  ELSE ReachFrom(nodes, S \cup {j \in 1..Len(nodes) : \E i \in S : Precedes(nodes, i, j)}, k - 1)

Cyclic(nodes) ==
  \E i \in 1..Len(nodes) :
    i \in ReachFrom(nodes, {j \in 1..Len(nodes) : Precedes(nodes, i, j)}, Len(nodes))

DeclaredCyclic(call) ==
  Cyclic(DeclaredNodes(<<>>, Decorated(program), call.op, call.classes, call.includeClasses))

\* C2: a sort call over classes whose declared fulfills/dependsOn form a
\* cycle of before/after edges fails: it returns no graph and no order.
C2_CycleDetection ==
  (IsSort(lastCall) /\ DeclaredCyclic(lastCall)) =>
    (~lastCall.ok /\ lastCall.actions = <<>> /\ lastCall.items = <<>>)

\* a sort call over two classes whose methods depend on each other's key failed
C2_Witness ==
  /\ lastCall.op = "sortActions" /\ Len(lastCall.classes) = 2
  /\ DeclaredCyclic(lastCall)
  /\ ~lastCall.ok
  /\ "y" \in Range(reg["A"].methods[1].dependsOn)
  /\ "x" \in Range(reg["B"].methods[1].dependsOn)

\* what the same call returns when it is the first call after decoration
FreshCall(call) ==
  IF call.op = "sortActions"
  THEN sortActions(Decorated(program), 1, call.classes, call.includeClasses,
                   call.removeKeys).result
  ELSE sortActionClasses(Decorated(program), call.classes, call.removeKeys)

\* C3: a sort call returns the same order as the same call made first,
\* whatever calls were made before it.
C3_Determinism ==
  IsSort(lastCall) =>
    /\ lastCall.ok = FreshCall(lastCall).ok
    /\ GroupsOf(lastCall) = GroupsOf(FreshCall(lastCall))

\* C10: the group, fulfills and dependsOn of every stored record are the
\* ones the decorators stored.
C10_MetadataImmutable ==
  \A c \in ClassNames :
    LET now == reg[c]
        was == Decorated(program)[c]
    IN /\ now.group = was.group
       /\ now.fulfills = was.fulfills
       /\ now.dependsOn = was.dependsOn
       /\ \A i \in 1..Len(was.methods) :
            /\ now.methods[i].group = was.methods[i].group
            /\ now.methods[i].fulfills = was.methods[i].fulfills
            /\ now.methods[i].dependsOn = was.methods[i].dependsOn

(***************************************************************************)
(* Properties of Sequence.run, toDOT and reset.                            *)
(***************************************************************************)
\* the run() call r got past buildGraph
Started(r) ==
  runs[r].pc # "idle" /\ ~(runs[r].pc = "failed" /\ runs[r].err = "dependencies")

\* the method nodes of the cached order
CachedMethods == SelectSeq(actionGraph.actions, LAMBDA n : n.kind = "method")

\* what the declaration of a method node says a call of it in run r binds
DeclaredPublication(r, node) ==
  LET d == DeclOf(program, node)
  IN IF d.behaviour = "value" /\ d.bindsReturnValueAs # <<>>
     THEN <<[key |-> JoinTokens(d.bindsReturnValueAs),
             val |-> [run |-> r, by |-> MetaOf(reg, node).group]]>>
     ELSE <<>>

RECURSIVE ExpectedPubs(_, _, _)
\* the bindings the first n actions of the plan make in run r
ExpectedPubs(r, plan, n) ==
  IF n = 0 THEN <<>>
  ELSE ExpectedPubs(r, plan, n - 1) \o DeclaredPublication(r, plan[n])

C4_State ==
  \A r \in 1..MaxRuns :
    Started(r) =>
      LET run == runs[r]
      IN /\ actionGraph.built
         /\ run.plan = CachedMethods
         /\ \A i, j \in 1..Len(run.plan) : run.plan[i] = run.plan[j] => i = j
         /\ Len(run.invoked) <= Len(run.plan)
         /\ run.invoked = SubSeq(run.plan, 1, Len(run.invoked))
         /\ run.completed \in {Len(run.invoked) - 1, Len(run.invoked)}
         /\ run.completed >= 0
         /\ run.pubs = ExpectedPubs(r, run.plan, run.completed)
         /\ run.pc = "done" => run.invoked = run.plan /\ run.completed = Len(run.plan)
         /\ run.pc = "awaitGet" => run.completed = Len(run.invoked)
         /\ run.pc = "awaitInvoke" => run.completed = Len(run.invoked) - 1

C4_Step ==
  \A r \in 1..MaxRuns :
    /\ Len(runs'[r].invoked) > Len(runs[r].invoked) =>
         /\ Len(runs'[r].invoked) = Len(runs[r].invoked) + 1
         /\ runs[r].completed = Len(runs[r].invoked)
         /\ runs'[r].completed = runs[r].completed
    /\ runs'[r].completed > runs[r].completed =>
         /\ runs'[r].completed = runs[r].completed + 1
         /\ runs'[r].invoked = runs[r].invoked
         /\ LET pubs == DeclaredPublication(r, runs[r].plan[runs'[r].completed])
            IN \A p \in 1..Len(pubs) : store'[pubs[p].key] = ValueBinding(pubs[p].val)

\* C4: a run() invokes exactly the method nodes of the cached order, each
\* once, in the order of the sorted list; the invocation of an action starts
\* only when every earlier action of the run has completed, and when an
\* action completes its result is bound in the store.
C4_SequentialExecution == []C4_State /\ [][C4_Step]_vars

\* a run() of three actions ended after all of them were invoked and two of
\* them published their value
C4_Witness ==
  \E r \in 1..MaxRuns :
    /\ runs[r].pc = "done"
    /\ Len(runs[r].plan) = 3
    /\ runs[r].invoked = runs[r].plan
    /\ Len(runs[r].pubs) >= 2

\* a call of the method of `node` binds key k: by its published return value
\* or by an injected setter
Binds(r, node, k) ==
  \/ \E p \in 1..Len(DeclaredPublication(r, node)) : DeclaredPublication(r, node)[p].key = k
  \/ \E a \in 1..Len(DeclOf(program, node).args) :
       /\ DeclOf(program, node).args[a].setter
       /\ JoinTokens(DeclOf(program, node).args[a].key) = k

\* the keys the method of `node` reads as injected inputs, in argument order
ReadKeys(node) ==
  LET reads == FilterInjections(DeclOf(program, node).args, FALSE)
  IN [a \in 1..Len(reads) |-> LookupKey(reads[a])]

Last(S) == CHOOSE m \in S : \A n \in S : n <= m

\* no other run() of the Sequence was called
OnlyRun(r) == \A q \in 1..MaxRuns : q # r => runs[q].pc = "idle"

\* C5 as stated: in a run, when P publishes k by its return value and C reads
\* k, C is invoked after P and observes exactly the value P published.
C5_ObservesProducer ==
  \A r \in 1..MaxRuns :
    Started(r) =>
      \A j \in 1..Len(runs[r].invoked) :
        \A a \in 1..Len(ReadKeys(runs[r].plan[j])) :
          \A i \in 1..Len(runs[r].plan) :
            LET pub == DeclaredPublication(r, runs[r].plan[i])
            IN (pub # <<>> /\ pub[1].key = ReadKeys(runs[r].plan[j])[a]) =>
                 /\ i < j
                 /\ runs[r].observed[j][a] = pub[1].val

\* C5, amended: every action of the plan that binds k comes before C, and C
\* observes a value that one of them bound under k; when no other run() of
\* the Sequence was called, it is the value bound in this run by the last
\* of them.
C5_ObservesLastBinding ==
  \A r \in 1..MaxRuns :
    Started(r) =>
      \A j \in 1..Len(runs[r].invoked) :
        \A a \in 1..Len(ReadKeys(runs[r].plan[j])) :
          LET k == ReadKeys(runs[r].plan[j])[a]
              prods == {i \in 1..Len(runs[r].plan) : Binds(r, runs[r].plan[i], k)}
              seen == runs[r].observed[j][a]
          IN prods # {} =>
               /\ \A i \in prods : i < j
               /\ seen.run >= 1
               /\ \E i \in prods : seen.by = MetaOf(reg, runs[r].plan[i]).group
               /\ OnlyRun(r) =>
                    seen = [run |-> r, by |-> MetaOf(reg, runs[r].plan[Last(prods)]).group]

\* B.m was invoked in the only run of a Sequence in which A.m and A.n both
\* published x, and observed the value of A.n
C5_Witness ==
  \E r \in 1..MaxRuns :
    /\ OnlyRun(r)
    /\ runs[r].pc = "done"
    /\ Len(runs[r].plan) = 3
    /\ runs[r].plan[3].cls = "B"
    /\ ReadKeys(runs[r].plan[3]) = <<"x">>
    /\ runs[r].observed[3] = <<[run |-> r, by |-> MetaOf(reg, runs[r].plan[2]).group]>>
    /\ Binds(r, runs[r].plan[1], "x")

\* the keys the constructor of class c reads
CtorKeys(c) ==
  LET reads == FilterInjections(program[c].args, FALSE)
  IN {LookupKey(reads[a]) : a \in 1..Len(reads)}

Unbound(st, keys) == {k \in keys : st[k].kind = "none" /\ k \notin parent}

\* the step in which run r fails: nothing is invoked, no binding is removed,
\* the bindings of the run stay, and the error is the one of the failing
\* lookup or of the method that threw
C6_FailingStep(r) ==
  /\ runs'[r].invoked = runs[r].invoked
  /\ runs'[r].plan = runs[r].plan \/ runs[r].pc = "idle"
  /\ \A k \in StoreKeys : store[k].kind # "none" => store'[k].kind # "none"
  /\ \A p \in 1..Len(runs'[r].pubs) :
       LET pb == runs'[r].pubs[p]
       IN (/\ p > Len(runs[r].pubs) \/ store[pb.key] = ValueBinding(pb.val)
           /\ \A q \in (p + 1)..Len(runs'[r].pubs) : runs'[r].pubs[q].key # pb.key) =>
            store'[pb.key] = ValueBinding(pb.val)
  /\ CASE runs[r].pc = "idle" /\ ~actionGraph'.built ->
            runs'[r].err = "dependencies"
       [] runs[r].pc = "awaitGet" ->
            \E k \in Unbound(store, Range(ReadKeys(runs[r].plan[runs[r].idx]))) :
              runs'[r].err = "notfound:" \o k
       [] runs[r].pc = "awaitInvoke" /\ runs'[r].completed = runs[r].completed ->
            /\ DeclOf(program, runs[r].plan[runs[r].idx]).behaviour = "throw"
            /\ runs'[r].err = "thrown:" \o MetaOf(reg, runs[r].plan[runs[r].idx]).group
       [] OTHER ->
            \E k \in Unbound(store', CtorKeys(runs'[r].plan[runs'[r].idx].cls)) :
              runs'[r].err = "notfound:" \o k

C6_Step ==
  \A r \in 1..MaxRuns :
    /\ (runs[r].pc # "failed" /\ runs'[r].pc = "failed") => C6_FailingStep(r)
    /\ runs[r].pc = "failed" => runs'[r] = runs[r]
    /\ (runs[r].pc = "awaitGet" /\ runs'[r] # runs[r]
        /\ Unbound(store, Range(ReadKeys(runs[r].plan[runs[r].idx]))) # {}) =>
         runs'[r].pc = "failed"
    /\ (runs[r].pc = "awaitInvoke" /\ runs'[r] # runs[r]
        /\ DeclOf(program, runs[r].plan[runs[r].idx]).behaviour = "throw") =>
         runs'[r].pc = "failed"
    /\ (runs[r].pc # "awaitGet" /\ runs'[r].pc = "awaitGet") =>
         LET key == ClassKey(runs'[r].plan[runs'[r].idx].cls)
         IN /\ store'[key].inst
            /\ ~store[key].inst =>
                 Unbound(store', CtorKeys(runs'[r].plan[runs'[r].idx].cls)) = {}

\* a failed run that no other run() and no reset() interfered with: the
\* last binding it made for each key it published is in the store
C6_State ==
  \A r \in 1..MaxRuns :
    (runs[r].pc = "failed" /\ OnlyRun(r) /\ ~wasReset) =>
      \A p \in 1..Len(runs[r].pubs) :
        LET key == runs[r].pubs[p].key
            last == Last({q \in 1..Len(runs[r].pubs) : runs[r].pubs[q].key = key})
        IN store[key] = ValueBinding(runs[r].pubs[last].val)

\* C6: when the instance of an action cannot be created, an argument cannot
\* be resolved or the method throws, the run fails with that error, invokes
\* nothing more, and the failure removes no binding: what the actions that
\* ran have published is still bound.
C6_AbortOnError == []C6_State /\ [][C6_Step]_vars

\* a run failed before its last action was invoked, and the value an earlier
\* action published is still bound
C6_Witness ==
  \E r \in 1..MaxRuns :
    /\ runs[r].pc = "failed"
    /\ runs[r].pubs # <<>>
    /\ Len(runs[r].invoked) < Len(runs[r].plan)
    /\ store[runs[r].pubs[1].key] = ValueBinding(runs[r].pubs[1].val)

\* the declarations of the classes of the Sequence have a cycle
SequenceCyclic ==
  Cyclic(DeclaredNodes(<<>>, Decorated(program), "sortActions", seqClasses, TRUE))

\* the keys the record of an action names in dependsOn, without the group of
\* its class
DependsOnKeys(node) ==
  Range(MetaOf(reg, node).dependsOn) \ {reg[node.cls].group}

\* an earlier action of the plan declares that it fulfills k
FulfilledBefore(plan, j, k) ==
  \E i \in 1..(j - 1) : k \in Range(MetaOf(reg, plan[i]).fulfills)

\* C7 as stated: a run does not get past an action that depends on a key
\* which no earlier action fulfilled and the caller did not bind: every
\* invoked action had each of its dependsOn keys fulfilled or pre-seeded.
C7_FailsOnUnfulfilled ==
  \A r \in 1..MaxRuns :
    Started(r) =>
      \A j \in 1..Len(runs[r].invoked) :
        \A k \in DependsOnKeys(runs[r].plan[j]) :
          FulfilledBefore(runs[r].plan, j, k) \/ k \in parent

C7_State ==
  \A r \in 1..MaxRuns :
    Started(r) =>
      \A j \in 1..Len(runs[r].invoked) :
        \A a \in 1..Len(ReadKeys(runs[r].plan[j])) :
          runs[r].observed[j][a] # NoValue

C7_Step ==
  \A r \in 1..MaxRuns :
    /\ (runs[r].pc = "idle" /\ runs'[r].pc # "idle" /\ ~SequenceCyclic) =>
         /\ actionGraph'.built
         /\ runs'[r].err # "dependencies"
    /\ (runs[r].pc = "awaitGet" /\ runs'[r] # runs[r]) =>
         LET node == runs[r].plan[runs[r].idx]
             missing == Unbound(store, Range(ReadKeys(node)))
         IN IF missing # {}
            THEN /\ runs'[r].pc = "failed"
                 /\ \E k \in missing : runs'[r].err = "notfound:" \o k
                 /\ runs'[r].invoked = runs[r].invoked
            ELSE /\ runs'[r].pc = "awaitInvoke"
                 /\ runs'[r].invoked = Append(runs[r].invoked, node)

\* C7, amended: sorting succeeds whenever the declarations have no cycle,
\* fulfilled or not; run() fails with a binding-not-found error at an action
\* exactly when a key the action reads as an injected input is not bound at
\* that moment; a key that is only named in dependsOn is never looked up.
C7_FailsOnUnboundInput == []C7_State /\ [][C7_Step]_vars

\* the Sequence of class A alone was sorted although no action fulfills y,
\* and its run failed when A.m read y
C7_Witness ==
  /\ seqClasses = <<"A">>
  /\ actionGraph.built
  /\ \E r \in 1..MaxRuns :
       /\ runs[r].pc = "failed"
       /\ runs[r].err = "notfound:y"
       /\ runs[r].invoked = <<>>
       /\ ReadKeys(runs[r].plan[1]) = <<"y">>

C8_State ==
  /\ builds <= 1
  /\ actionGraph.built <=> builds = 1
  /\ ~actionGraph.built => actionGraph = NoGraph
  /\ \A r \in 1..MaxRuns : Started(r) => actionGraph.built

\* the graph a step has computed is the one sortActions(classes, true, false)
\* returns at that moment
C8_Computed ==
  LET sorted == sortActions(reg, nextDesc, seqClasses, TRUE, FALSE).result
  IN /\ sorted.ok
     /\ actionGraph' = [built |-> TRUE, items |-> sorted.items, actions |-> sorted.actions]

C8_Step ==
  /\ actionGraph.built => actionGraph' = actionGraph
  /\ builds' >= builds
  /\ (~actionGraph.built /\ actionGraph'.built) =>
       /\ C8_Computed
       /\ \/ calls' = calls + 1
          \/ \E r \in 1..MaxRuns : runs[r].pc = "idle" /\ runs'[r].pc # "idle"

\* C8: a Sequence has no graph before its first run() or toDOT(); the graph
\* is the result of sortActions(classes, true, false); it is computed at most
\* once, and once there it is never replaced, whatever run(), toDOT() and
\* reset() calls follow.
C8_LazyCachedGraph == ~actionGraph.built /\ []C8_State /\ [][C8_Step]_vars

\* two runs, a toDOT and a reset happened on a Sequence whose graph was
\* computed once
C8_Witness ==
  /\ actionGraph.built /\ builds = 1
  /\ calls >= 1
  /\ wasReset
  /\ \A r \in 1..MaxRuns : Started(r)

\* the store right after construction: one class binding per action class
ConstructedStore ==
  [k \in StoreKeys |->
     IF \E i \in 1..Len(seqClasses) : k = ClassKey(seqClasses[i])
     THEN [kind |-> "class", cls |-> CHOOSE c \in ClassNames : k = ClassKey(c),
           inst |-> FALSE, val |-> NoValue]
     ELSE NoBinding]

C9_State ==
  /\ lastOp = "reset" => store = ConstructedStore
  /\ \A r, q \in 1..MaxRuns : (Started(r) /\ Started(q)) => runs[r].plan = runs[q].plan

C9_Step ==
  lastOp' = "reset" =>
    /\ actionGraph' = actionGraph
    /\ builds' = builds
    /\ parent' = parent
    /\ seqClasses' = seqClasses
    /\ runs' = runs

\* C9: right after reset() the store holds exactly the class bindings it
\* held after construction and none of the published keys; reset() changes
\* neither the cached graph nor the parent, and every run() of the Sequence,
\* before or after, executes the same order.
C9_ResetRestoresBuilt == []C9_State /\ [][C9_Step]_vars

\* reset() was just called on a built Sequence after a run that had
\* published a value ended
C9_Witness ==
  /\ lastOp = "reset"
  /\ actionGraph.built
  /\ \E r \in 1..MaxRuns : runs[r].pc = "done" /\ runs[r].pubs # <<>>
  /\ \A k \in DataKeys : store[k] = NoBinding

(***************************************************************************)
(* Properties of the stored metadata.                                      *)
(***************************************************************************)
NoDuplicates(keys) == \A i, j \in 1..Len(keys) : keys[i] = keys[j] => i = j

\* the keys that carry no '#' qualifier: the data keys and the group labels
\* of the classes
RawKeys == DataKeys \cup {"class:" \o c : c \in ClassNames}

CleanList(keys) == NoDuplicates(keys) /\ Range(keys) \subseteq RawKeys

CleanRecord(meta) == CleanList(meta.fulfills) /\ CleanList(meta.dependsOn)

\* C11: in every reachable state the fulfills list and the dependsOn list of
\* every stored action metadata record (class-level and method-level) hold no
\* key twice and no key with a '#' qualifier.
C11_MetadataInvariant ==
  \A c \in DOMAIN reg :
    /\ CleanRecord(reg[c])
    /\ \A i \in 1..Len(reg[c].methods) : CleanRecord(reg[c].methods[i])

\* C12: for every descriptor d that inspectAction has returned and every
\* method of d, the method's actionClass is d itself.  A descriptor shares
\* its method records with the stored metadata, so d.methods[i].actionClass
\* is the stamp the stored method record carries now.
C12_BackReferences ==
  \A d \in 1..Len(descriptors) :
    \A i \in 1..Len(reg[descriptors[d]].methods) :
      reg[descriptors[d]].methods[i].actionClass = d

(***************************************************************************)
(* Properties of the two sort modes.                                       *)
(***************************************************************************)
RECURSIVE DeleteKeyNodes(_)
\* a node list with every key (string) node deleted
DeleteKeyNodes(nodes) ==
  IF nodes = <<>> THEN <<>>
  ELSE (IF Head(nodes).kind = "key" THEN <<>> ELSE <<Head(nodes)>>)
       \o DeleteKeyNodes(Tail(nodes))

\* what the call `call` returns when made in the current state with the
\* given removeKeys
SameCall(call, removeKeys) ==
  IF call.op = "sortActions"
  THEN sortActions(reg, nextDesc, call.classes, call.includeClasses, removeKeys).result
  ELSE sortActionClasses(reg, call.classes, removeKeys)

KeyFiltered(call, unfiltered) ==
  /\ call.ok = unfiltered.ok
  /\ call.actions = DeleteKeyNodes(unfiltered.actions)
  /\ \A p \in 1..Len(call.actions) : call.actions[p].kind # "key"

C13_Step ==
  (calls' = calls + 1 /\ IsSort(lastCall') /\ lastCall'.removeKeys)
    => KeyFiltered(lastCall', SameCall(lastCall', FALSE))

\* C13: a sort call made with removeKeys = true returns (or throws) as the
\* same call made with removeKeys = false in the same state, and its actions
\* list is that call's list with every key node deleted: every action node,
\* no key node, same relative order.
C13_KeyFiltering == [][C13_Step]_vars

\* a sortActions call with removeKeys = true returned two method nodes from
\* a graph that also holds key nodes
C13_Witness ==
  /\ lastCall.op = "sortActions" /\ lastCall.removeKeys /\ lastCall.ok
  /\ Len(lastCall.actions) >= 2
  /\ \E p \in 1..Len(lastCall.items) : lastCall.items[p].node.kind = "key"
  /\ Len(lastCall.actions) < Len(lastCall.items)

\* the position of a node in the items of a returned order
PositionOf(call, node) ==
  CHOOSE p \in 1..Len(call.items) : call.items[p].node = node

MethodPositions(call) ==
  {p \in 1..Len(call.items) : call.items[p].node.kind = "method"}

\* C14: in every order sortActions returns with includeClasses = true, every
\* method node of a class comes after the class node of that class, and so
\* after the key node of every key the class depends on.
C14_MethodsAfterClass ==
  (lastCall.op = "sortActions" /\ lastCall.includeClasses /\ lastCall.ok) =>
    \A p \in MethodPositions(lastCall) :
      LET c == lastCall.items[p].node.cls
      IN /\ \E q \in 1..(p - 1) : lastCall.items[q].node = ClassNode(c)
         /\ \A k \in Range(reg[c].dependsOn) :
              \E q \in 1..(p - 1) : lastCall.items[q].node = KeyNode(k)

\* sortActions(["A", "B"], true, _) returned; class A depends on a key that
\* class B, added after A's method, fulfills: A.m comes after class B
C14_Witness ==
  /\ lastCall.op = "sortActions" /\ lastCall.includeClasses /\ lastCall.ok
  /\ lastCall.classes = <<"A", "B">>
  /\ \E k \in Range(reg["A"].dependsOn) : k \in Range(reg["B"].fulfills)
  /\ PositionOf(lastCall, ClassNode("B")) < PositionOf(lastCall, MethodNode("A", "m"))

ClassGroups == {reg[c].group : c \in DOMAIN reg}

\* the keys the decorators stored in the fulfills and dependsOn of the
\* methods of the classes of a list
DeclaredMethodKeys(classes) ==
  UNION {UNION {Range(Decorated(program)[c].methods[i].fulfills)
                  \cup Range(Decorated(program)[c].methods[i].dependsOn) :
                i \in 1..Len(program[c].methods)} :
         c \in Range(classes)}

\* C15: an order sortActions returns with includeClasses = false is made of
\* method nodes and of key nodes for keys the methods declare; it holds no
\* class node and no node whose group is the group of an action class,
\* whatever calls were made before.
C15_MethodOnlyMode ==
  (lastCall.op = "sortActions" /\ ~lastCall.includeClasses /\ lastCall.ok) =>
    \A p \in 1..Len(lastCall.items) :
      LET it == lastCall.items[p]
      IN /\ it.node.kind \in {"method", "key"}
         /\ it.group \notin ClassGroups
         /\ it.node.kind = "key" => it.node.key \in DeclaredMethodKeys(lastCall.classes)

\* the keys named in the class-level fulfills and dependsOn of a class list
ClassLevelKeys(classes) ==
  UNION {Range(reg[c].fulfills) \cup Range(reg[c].dependsOn) : c \in Range(classes)}

\* the positions of the returned items that hold a node
PositionsOf(call, node) == {p \in 1..Len(call.items) : call.items[p].node = node}

\* the stored metadata without any method record
WithoutMethods == [c \in DOMAIN reg |-> [reg[c] EXCEPT !.methods = <<>>]]

\* C16: the result of sortActionClasses holds one class node for each class
\* of the input list, one key node for each distinct key of the class-level
\* fulfills and dependsOn of those classes, and nothing else; it is the
\* result the same call gives on classes that have no action method.
C16_ClassesOnly ==
  lastCall.op = "sortActionClasses" =>
    LET bare == sortActionClasses(WithoutMethods, lastCall.classes, lastCall.removeKeys)
    IN /\ lastCall.ok = bare.ok
       /\ lastCall.items = bare.items
       /\ lastCall.actions = bare.actions
       /\ lastCall.ok =>
            /\ \A p \in 1..Len(lastCall.items) :
                 \/ /\ lastCall.items[p].node.kind = "class"
                    /\ lastCall.items[p].node.cls \in Range(lastCall.classes)
                 \/ /\ lastCall.items[p].node.kind = "key"
                    /\ lastCall.items[p].node.key \in ClassLevelKeys(lastCall.classes)
            /\ \A c \in Range(lastCall.classes) :
                 Cardinality(PositionsOf(lastCall, ClassNode(c))) = 1
            /\ \A k \in ClassLevelKeys(lastCall.classes) :
                 Cardinality(PositionsOf(lastCall, KeyNode(k))) = 1

\* sortActionClasses returned for two classes that have methods with keys of
\* their own and a class-level key between them
C16_Witness ==
  /\ lastCall.op = "sortActionClasses" /\ lastCall.ok
  /\ Len(lastCall.classes) = 2
  /\ ClassLevelKeys(lastCall.classes) # {}
  /\ DeclaredMethodKeys(lastCall.classes) \ ClassLevelKeys(lastCall.classes) # {}
  /\ Len(lastCall.items) = 2 + Cardinality(ClassLevelKeys(lastCall.classes))

(***************************************************************************)
(* Ties.                                                                   *)
(***************************************************************************)
\* the item at position p must come before the item at position q, by an
\* edge or by a chain of edges
Constrained(items, p, q) ==
  q \in ReachFrom(items, {j \in 1..Len(items) : Precedes(items, p, j)}, Len(items))

\* two items with no constraint between them, either way
Tie(items, p, q) == ~Constrained(items, p, q) /\ ~Constrained(items, q, p)

\* C17 as stated: in every order a sort call returns, two nodes with no
\* constraint between them appear in the order they were added to the graph.
C17_StableTieBreak ==
  (IsSort(lastCall) /\ lastCall.ok) =>
    \A p, q \in 1..Len(lastCall.items) :
      (p < q /\ Tie(lastCall.items, p, q)) => lastCall.items[p].seq < lastCall.items[q].seq

\* the positions of the class nodes in the items of a returned order
ClassPositions(call) == {p \in 1..Len(call.items) : call.items[p].node.kind = "class"}

\* no class of the call has to come before another one
ClassesTied(call) ==
  \A p, q \in ClassPositions(call) : p # q => Tie(call.items, p, q)

\* C17 (amended): sortActionClasses(classes, true) over classes that have no
\* ordering constraint between them, direct or through a chain of keys,
\* returns the class nodes in the order of the input list.
C17_ClassTiesInInputOrder ==
  (lastCall.op = "sortActionClasses" /\ lastCall.removeKeys /\ lastCall.ok
     /\ ClassesTied(lastCall)) =>
    lastCall.actions = [i \in 1..Len(lastCall.classes) |-> ClassNode(lastCall.classes[i])]

\* sortActionClasses(["B", "A"], true) returned for two classes that name
\* class-level keys but have no constraint between them
C17_Witness ==
  /\ lastCall.op = "sortActionClasses" /\ lastCall.removeKeys /\ lastCall.ok
  /\ lastCall.classes = <<"B", "A">>
  /\ ClassesTied(lastCall)
  /\ reg["A"].dependsOn # <<>> /\ reg["B"].fulfills # <<>>
  /\ lastCall.actions = <<ClassNode("B"), ClassNode("A")>>

(***************************************************************************)
(* Publication.                                                            *)
(***************************************************************************)
\* the action of run r whose invocation is pending
Pending(r) == runs[r].plan[runs[r].idx]

\* the data keys other than k are bound as before
OthersKept(k) == \A o \in DataKeys \ {k} : store'[o] = store[o]

C19_Completes(r) ==
  LET decl == DeclOf(program, Pending(r))
      key == JoinTokens(decl.bindsReturnValueAs)
  IN IF decl.behaviour = "value" /\ decl.bindsReturnValueAs # <<>>
     THEN /\ store'[key] = ValueBinding([run |-> r, by |-> MethodGroup(Pending(r).cls, decl)])
          /\ OthersKept(key)
          /\ runs'[r].pubs = Append(runs[r].pubs, [key |-> key, val |-> store'[key].val])
     ELSE /\ OthersKept("")
          /\ runs'[r].pubs = runs[r].pubs

C19_Step ==
  \A r \in 1..MaxRuns :
    (runs[r].pc = "awaitInvoke" /\ runs'[r] # runs[r]) => C19_Completes(r)

\* C19: when the invocation of an action completes during run(), its result
\* is bound under the action's bindsReturnValueAs key if the result is not
\* undefined and the action declares bindsReturnValueAs, and in every other
\* case (undefined result, no bindsReturnValueAs, thrown error) no data
\* binding is added or changed; the binding is made in the step that goes on
\* to the next action, before that action's arguments are resolved.
C19_PublicationRule == [][C19_Step]_vars

\* a run has completed three actions: one returned undefined, one returned a
\* value without declaring bindsReturnValueAs, and one published its result
C19_Witness ==
  /\ runs[1].pc = "done"
  /\ runs[1].completed = 3
  /\ program["A"].methods[1].behaviour = "undefined"
  /\ program["B"].methods[1].bindsReturnValueAs = <<>>
  /\ Len(runs[1].pubs) = 1
  /\ store[runs[1].pubs[1].key] = ValueBinding(runs[1].pubs[1].val)

(***************************************************************************)
(* Properties of the decorators.                                           *)
(***************************************************************************)
\* when every decorator has run the registry is the decorated program
Meta_Decorated ==
  (\A c \in ClassNames : IsDecorated(c)) =>
    \A c \in ClassNames :
      /\ reg[c].group = Decorated(program)[c].group
      /\ Len(reg[c].methods) = Len(Decorated(program)[c].methods)
      /\ reg[c].statics = Decorated(program)[c].statics

\* the declarations of the methods whose records are stored on the prototype
\* and on the class
InstanceDecls(c) == SelectSeq(program[c].methods, LAMBDA m : ~m.isStatic)
StaticDecls(c) == SelectSeq(program[c].methods, LAMBDA m : m.isStatic)

\* a written key without its '#...' suffix
BaseKey(ts) ==
  LET hs == {i \in 1..Len(ts) : ts[i] = "#"}
  IN JoinTokens(IF hs = {} THEN ts ELSE SubSeq(ts, 1, Min(hs) - 1))

\* the keys of the plain-read (setter = FALSE) or setter injections, in order
KeysOf(args, setter) ==
  LET sel == SelectSeq(args, LAMBDA a : a.setter = setter)
  IN [i \in 1..Len(sel) |-> sel[i].key]

\* where key k first occurs in a list of written keys
FirstAt(written, k) == Min({i \in 1..Len(written) : BaseKey(written[i]) = k})

\* list holds the keys of `written` without their suffixes, each once, in the
\* order of their first occurrence
Extracted(list, written) ==
  /\ NoDuplicates(list)
  /\ Range(list) = {BaseKey(written[i]) : i \in 1..Len(written)}
  /\ \A a, b \in 1..Len(list) :
       a < b => FirstAt(written, list[a]) < FirstAt(written, list[b])

\* the key a method configuration binds its return value as, as a list
ReturnKey(decl) ==
  IF "bindsReturnValueAs" \in DOMAIN decl /\ decl.bindsReturnValueAs # <<>>
  THEN <<decl.bindsReturnValueAs>> ELSE <<>>

\* the stored records with their configurations: [rec, decl]
StoredRecords ==
  {[rec |-> reg[c], decl |-> program[c]] : c \in {o \in ClassNames : IsDecorated(o)}}
  \cup UNION {{[rec |-> reg[c].methods[i], decl |-> InstanceDecls(c)[i]] :
                 i \in 1..Len(reg[c].methods)}
              \cup {[rec |-> reg[c].statics[i], decl |-> StaticDecls(c)[i]] :
                      i \in 1..Len(reg[c].statics)} :
              c \in ClassNames}

ReadsExtracted(s) ==
  Extracted(s.rec.dependsOn, KeysOf(s.decl.args, FALSE) \o Declared(s.decl, "dependsOn"))

\* C18 as stated: the dependsOn of every stored record is the keys of its
\* plain-read injections followed by its declared dependsOn, and its fulfills
\* is the keys of its setter injections followed by its declared fulfills,
\* each without '#' suffixes and without duplicates, first occurrences kept.
C18_DependencyExtraction ==
  \A s \in StoredRecords :
    /\ ReadsExtracted(s)
    /\ Extracted(s.rec.fulfills, KeysOf(s.decl.args, TRUE) \o Declared(s.decl, "fulfills"))

\* C18 (amended): as above, and the fulfills of a method that declares
\* bindsReturnValueAs has that key after the declared fulfills.
C18_ExtractionWithReturnKey ==
  \A s \in StoredRecords :
    /\ ReadsExtracted(s)
    /\ Extracted(s.rec.fulfills,
                 KeysOf(s.decl.args, TRUE) \o Declared(s.decl, "fulfills") \o ReturnKey(s.decl))

\* class A was inspected: its class record and its method were decorated
\* with reads and a setter that carry qualifiers and repeat keys; the method
\* of class B binds its return value as y
C18_Witness ==
  /\ lastCall.op = "inspectAction" /\ lastCall.classes = <<"A">>
  /\ IsDecorated("B") /\ reg["B"].methods[1].fulfills = <<"y">>
  /\ reg["A"].dependsOn = <<"x", "z">> /\ reg["A"].fulfills = <<"y", "w">>
  /\ Len(program["A"].args) = 3
  /\ reg["A"].methods[1].dependsOn = <<"x", "z">>
  /\ reg["A"].methods[1].fulfills = <<"y", "w">>
  /\ Len(program["A"].methods[1].args) = 3

\* what a stored record belongs to
KindOf(s) ==
  IF "name" \in DOMAIN s.decl THEN "class"
  ELSE IF s.decl.isStatic THEN "static" ELSE "instance"

\* the records whose configuration has no group
DefaultLabelled == {s \in StoredRecords : s.decl.group = ""}

\* C20: a group in the decorator configuration is the group of the record;
\* without one the label is 'class:<C>' for a class, 'method:<C>.prototype.<m>'
\* for an instance method and 'method:<C>.<m>' for a static method, and the
\* computed labels of records of different kinds differ, also when the class
\* and the methods have the same name.
C20_GroupLabels ==
  /\ \A s \in StoredRecords : s.decl.group # "" => s.rec.group = s.decl.group
  /\ \A c \in ClassNames :
       /\ (IsDecorated(c) /\ program[c].group = "") => reg[c].group = "class:" \o c
       /\ \A i \in 1..Len(reg[c].methods) :
            InstanceDecls(c)[i].group = "" =>
              reg[c].methods[i].group = "method:" \o c \o ".prototype." \o InstanceDecls(c)[i].method
       /\ \A i \in 1..Len(reg[c].statics) :
            StaticDecls(c)[i].group = "" =>
              reg[c].statics[i].group = "method:" \o c \o "." \o StaticDecls(c)[i].method
  /\ \A s, t \in DefaultLabelled : KindOf(s) # KindOf(t) => s.rec.group # t.rec.group

\* class A, its instance method A and its static method A are decorated
\* without a group, class B with one
C20_Witness ==
  /\ IsDecorated("A") /\ IsDecorated("B")
  /\ reg["A"].group = "class:A"
  /\ reg["A"].methods[1].method = "A" /\ reg["A"].methods[1].group = "method:A.prototype.A"
  /\ Len(reg["A"].statics) = 1
  /\ reg["A"].statics[1].method = "A" /\ reg["A"].statics[1].group = "method:A.A"
  /\ reg["B"].group = "timer-group"

(***************************************************************************)
(* Properties of the diagram.                                              *)
(***************************************************************************)
\* the graph items a returned diagram was made from
DotSource == IF IsSort(lastCall) THEN lastCall.items ELSE actionGraph.items

\* the node statements of the diagram, in order
NodeStatements == SelectSeq(dot.stmts, LAMBDA st : st.stmt = "node")

\* the names a list of items gives to its node statements, in order
NamesOf(items) == [i \in 1..Len(items) |-> normalize(items[i].group)]

StatementNames == [i \in 1..Len(NodeStatements) |-> NodeStatements[i].name]

\* C21 as stated: the node statements of a diagram list the graph entries in
\* the order in which they were added to the graph.
C21_InsertionOrder ==
  dot.made => StatementNames = NamesOf(BySeq(DotSource))

\* where the node statement named n stands in the diagram
StatementAt(n) == Min({i \in 1..Len(dot.stmts) : dot.stmts[i].stmt = "node" /\ dot.stmts[i].name = n})

\* C21 (amended): the node statements of a diagram list the graph entries in
\* the final sorted order, the order of the unfiltered actions list: an
\* entry's statements come before the node statement of every target of its
\* before list and after the node statement of every target of its after
\* list.
C21_SortedOrder ==
  dot.made =>
    /\ StatementNames = NamesOf(DotSource)
    /\ IsSort(lastCall) =>
         DeleteKeyNodes([i \in 1..Len(DotSource) |-> DotSource[i].node])
           = DeleteKeyNodes(lastCall.actions)
    /\ \A i \in 1..Len(dot.stmts) :
         /\ dot.stmts[i].stmt = "before" =>
              \A t \in Range(dot.stmts[i].targets) : i < StatementAt(t)
         /\ dot.stmts[i].stmt = "after" =>
              \A t \in Range(dot.stmts[i].targets) : StatementAt(t) < i

\* toDot returned for a graph whose sorted order is not the order in which
\* its entries were added
C21_Witness ==
  /\ dot.made
  /\ lastCall.op = "sortActions" /\ lastCall.includeClasses
  /\ Len(lastCall.classes) = 2
  /\ BySeq(lastCall.items) # lastCall.items

\* the positions of the statements of one kind that carry a name
StatementsOf(kind, n) ==
  {i \in 1..Len(dot.stmts) : dot.stmts[i].stmt = kind /\ dot.stmts[i].name = n}

\* the statement at position i names each group of the list once and
\* nothing else
NamesEachOnce(i, groups) ==
  /\ NoDuplicates(dot.stmts[i].targets)
  /\ Range(dot.stmts[i].targets) = {normalize(g) : g \in Range(groups)}

\* the grouped edge statement of a list of an entry: none for an empty list,
\* one that names each target once otherwise
EdgeStatement(kind, item, groups) ==
  IF groups = <<>> THEN StatementsOf(kind, normalize(item.group)) = {}
  ELSE /\ Cardinality(StatementsOf(kind, normalize(item.group))) = 1
       /\ \A i \in StatementsOf(kind, normalize(item.group)) : NamesEachOnce(i, groups)

\* C22: a diagram holds one node statement for every graph entry, and for
\* every entry one edge statement for its before list and one for its after
\* list when the list is not empty, each naming every target of the list
\* once, and nothing else.
C22_DiagramContent ==
  dot.made =>
    /\ \A p \in 1..Len(DotSource) :
         /\ Cardinality(StatementsOf("node", normalize(DotSource[p].group))) = 1
         /\ EdgeStatement("before", DotSource[p], DotSource[p].before)
         /\ EdgeStatement("after", DotSource[p], DotSource[p].after)
    /\ \A i \in 1..Len(dot.stmts) :
         /\ dot.stmts[i].stmt \in {"node", "before", "after"}
         /\ \E p \in 1..Len(DotSource) : dot.stmts[i].name = normalize(DotSource[p].group)

(***************************************************************************)
(* Key nodes.                                                              *)
(***************************************************************************)
\* the positions of the items of a group
ItemsOfGroup(items, g) == {q \in 1..Len(items) : items[q].group = g}

\* the keys an item was added with
KeysNamed(item) == Range(item.before) \cup Range(item.after)

\* C23: in the graph of every order a sort call returns, every key named in
\* the fulfills or dependsOn an action was added with has a node of that
\* group that was added before the action, and no group has a second node:
\* a key named by several actions, or equal to the group of an action added
\* before, has one node only.
C23_KeyNodes ==
  (IsSort(lastCall) /\ lastCall.ok) =>
    /\ \A p \in 1..Len(lastCall.items) :
         lastCall.items[p].node.kind # "key" =>
           \A k \in KeysNamed(lastCall.items[p]) :
             \E q \in ItemsOfGroup(lastCall.items, k) :
               lastCall.items[q].seq < lastCall.items[p].seq
    /\ \A p \in 1..Len(lastCall.items) :
         lastCall.items[p].node.kind = "key" =>
           /\ lastCall.items[p].node.key = lastCall.items[p].group
           /\ ItemsOfGroup(lastCall.items, lastCall.items[p].group) = {p}

\* a sort with class nodes returned: key x is named by a method of A and by
\* a method of B, and the group of class A, named by A's method, is the
\* group of the class node added before
C23_Witness ==
  /\ lastCall.op = "sortActions" /\ lastCall.includeClasses /\ lastCall.ok
  /\ Len(lastCall.classes) = 2
  /\ \E p, q \in 1..Len(lastCall.items) :
       /\ lastCall.items[p].node = MethodNode("A", "m")
       /\ lastCall.items[q].node = MethodNode("B", "m")
       /\ "x" \in KeysNamed(lastCall.items[p]) \cap KeysNamed(lastCall.items[q])
       /\ "class:A" \in KeysNamed(lastCall.items[p])
  /\ Cardinality(ItemsOfGroup(lastCall.items, "x")) = 1
  /\ \A q \in ItemsOfGroup(lastCall.items, "class:A") : lastCall.items[q].node = ClassNode("A")

(***************************************************************************)
(* The return-value key.                                                   *)
(***************************************************************************)
\* the action items of a returned graph that were added with k in their
\* dependsOn
DependantsOf(call, k) ==
  {q \in 1..Len(call.items) : call.items[q].node.kind # "key" /\ k \in Range(call.items[q].after)}

\* the method at position p of the returned graph precedes the node of key k
\* and every action that depends on k
PrecedesKeyAndDependants(call, p, k) ==
  /\ \A q \in ItemsOfGroup(call.items, k) : p < q
  /\ \A q \in DependantsOf(call, k) : p < q

\* C24: the key a method declares as bindsReturnValueAs is a member of the
\* method's stored fulfills, and in every order sortActions returns the
\* method comes before the node of that key and before every action that
\* depends on the key.
C24_ReturnKeyIsOutput ==
  /\ \A c \in ClassNames : \A i \in 1..Len(reg[c].methods) :
       program[c].methods[i].bindsReturnValueAs # <<>> =>
         /\ reg[c].methods[i].bindsReturnValueAs = JoinTokens(program[c].methods[i].bindsReturnValueAs)
         /\ reg[c].methods[i].bindsReturnValueAs \in Range(reg[c].methods[i].fulfills)
  /\ (lastCall.op = "sortActions" /\ lastCall.ok) =>
       \A p \in MethodPositions(lastCall) :
         LET decl == DeclOf(program, lastCall.items[p].node)
         IN decl.bindsReturnValueAs # <<>> =>
              PrecedesKeyAndDependants(lastCall, p, JoinTokens(decl.bindsReturnValueAs))

\* sortActions(["B", "A"], ..) returned: A.m, added last, binds its return
\* value as x and comes before the node of x and before B.m, which reads x
C24_Witness ==
  /\ lastCall.op = "sortActions" /\ lastCall.ok /\ ~lastCall.removeKeys
  /\ lastCall.classes = <<"B", "A">>
  /\ program["A"].methods[1].bindsReturnValueAs = <<"x">>
  /\ program["A"].methods[1].fulfills = <<>>
  /\ "x" \in Range(reg["B"].methods[1].dependsOn)
  /\ PositionOf(lastCall, MethodNode("A", "m")) < PositionOf(lastCall, KeyNode("x"))
  /\ PositionOf(lastCall, KeyNode("x")) < PositionOf(lastCall, MethodNode("B", "m"))

(***************************************************************************)
(* A Sequence whose classes declare a cycle.                               *)
(***************************************************************************)
C25_State ==
  (~actionGraph.built /\ SequenceCyclic) =>
    /\ \A r \in 1..MaxRuns :
         /\ runs[r].pc \in {"idle", "failed"}
         /\ runs[r].pc = "failed" => runs[r].err = "dependencies"
         /\ runs[r].invoked = <<>> /\ runs[r].plan = <<>> /\ runs[r].pubs = <<>>
    /\ store = ConstructedStore
    /\ ~dot.made

C25_Step ==
  /\ (actionGraph'.built /\ ~actionGraph.built) => ~SequenceCyclic
  /\ (~actionGraph'.built /\ lastOp' # "reset") => store' = store

\* C25: when the action classes of a Sequence declare a cycle, no
\* ActionGraph is ever cached, every run() fails with the dependency error
\* without invoking a method or creating an instance, toDOT() returns no
\* diagram, and the store keeps the bindings it had before the call.
C25_CyclicNeverRuns == []C25_State /\ [][C25_Step]_vars

\* on a Sequence of two classes whose methods depend on each other's key,
\* toDOT() was called and two run() calls failed
C25_Witness ==
  /\ SequenceCyclic
  /\ Len(seqClasses) = 2
  /\ calls >= 1
  /\ \A r \in 1..MaxRuns : runs[r].pc = "failed" /\ runs[r].err = "dependencies"
  /\ ~actionGraph.built /\ builds = 0

(***************************************************************************)
(* Actions in progress.                                                    *)
(***************************************************************************)
\* the run() calls whose current action method was invoked and has not
\* completed yet
InProgress == {r \in 1..MaxRuns : runs[r].pc = "awaitInvoke"}

\* C26: at every moment at most one action method of the Sequence is in
\* progress, also when run() is called again while an earlier run() call is
\* suspended in an action.
C26_NoParallelExecution == Cardinality(InProgress) <= 1

(***************************************************************************)
(* Termination of run().                                                   *)
(***************************************************************************)
Settled27(r) == runs[r].pc \in {"done", "failed"}

Running(r) == runs[r].pc \notin {"idle", "done", "failed"}

C27_State ==
  \A r \in 1..MaxRuns :
    /\ NoDuplicates(runs[r].invoked)
    /\ Running(r) => /\ actionGraph.built
                     /\ runs[r].idx \in 1..Len(runs[r].plan)
                     /\ runs[r].completed = runs[r].idx - 1
    /\ runs[r].pc = "done" => /\ runs[r].invoked = runs[r].plan
                              /\ runs[r].completed = Len(runs[r].plan)
    /\ (runs[r].pc = "failed" /\ actionGraph.built) =>
         /\ runs[r].completed = runs[r].idx - 1
         /\ Len(runs[r].invoked) \in {runs[r].idx - 1, runs[r].idx}

\* a settled call takes no further step, and a call under way can always
\* take its next step, whatever the other calls do
C27_Step ==
  \A r \in 1..MaxRuns :
    /\ Settled27(r) => runs'[r] = runs[r]
    /\ runs'[r] # runs[r] =>
         \/ runs[r].pc = "idle"
         \/ Len(runs'[r].invoked) + runs'[r].completed
              = Len(runs[r].invoked) + runs[r].completed + 1
         \/ runs'[r].pc = "failed"

\* C27: a run() call on a built Sequence settles after finitely many steps:
\* it resolves when every action it invokes completes, or fails at the first
\* failing action and invokes nothing after it; it invokes no action twice,
\* and each of its steps waits only for its current action.
C27_RunTerminates ==
  /\ []C27_State
  /\ [][C27_Step]_vars
  /\ \A r \in 1..MaxRuns : Running(r) ~> Settled27(r)

\* a run() call of three actions resolved after a second call had failed
C27_Witness ==
  /\ runs[1].pc = "done" /\ Len(runs[1].plan) = 3 /\ runs[1].completed = 3
  /\ runs[2].pc = "failed" /\ runs[2].err # "dependencies"

====
